---- MODULE Spec2Model ----
(***************************************************************************)
(* The audio conversion pipeline of MOC (audio_conversion.c):              *)
(* audio_conv_new / audio_conv / audio_conv_destroy and the helpers they   *)
(* call.  Buffers are modelled by their allocation (identity, byte size),  *)
(* the format tag and the tracked length; the frames that travel through   *)
(* the resampler carry-over are modelled by their identity.                *)
(***************************************************************************)
EXTENDS Integers, Sequences, FiniteSets, TLC

VARIABLES
    ndebug,   \* build flag: assert() compiled out (NDEBUG)
    opts,     \* the options read through options_get_int / options_get_symb
    phase,    \* life cycle of the process and of the one descriptor
    conv,     \* struct audio_conversion
    hist,     \* history: frames fed to / consumed by src_process, library calls
    bres,     \* outcome of the last audio_conv_new call
    cres,     \* outcome of the last audio_conv call
    samp      \* the samples of the last converter or helper applied to data

vars == <<ndebug, opts, phase, conv, hist, bres, cres, samp>>

(***************************************************************************)
(* Bounds of the exploration.                                              *)
(***************************************************************************)
MaxFrames == 2      \* frames per audio_conv call, Spec and SpecOpt (one call)
MaxFramesRs == 1    \* frames per audio_conv call, SpecRs
MaxCallsRs == 2     \* audio_conv calls per descriptor, SpecRs
MaxFramesSound == 1 \* frames per audio_conv call, SpecSound (one call)
MaxSignBytes == 4   \* bytes of a buffer given to change_sign, SpecSign
MaxSwapBytes == 6   \* bytes of a buffer given to swap_endian and mono_to_stereo

(***************************************************************************)
(* Sample formats (audio.h).  A tag is an encoding bit plus an endianness  *)
(* bit; "fmt & SFMT_X" is membership of the encoding in a set.             *)
(***************************************************************************)
Encodings ==
    {"S8", "U8", "S16", "U16", "S24", "U24", "S24_3", "U24_3", "S32", "U32", "FLOAT"}
Endians == {"LE", "BE"}
SFMT_NE == "LE"
Formats == [enc : Encodings, end : Endians]

sfmt_Bps(fmt) ==
    CASE fmt.enc \in {"S8", "U8"} -> 1
      [] fmt.enc \in {"S16", "U16"} -> 2
      [] fmt.enc \in {"S24_3", "U24_3"} -> 3
      [] OTHER -> 4

SameWidthClasses ==
    { {"S8", "U8"}, {"S16", "U16"}, {"S24", "U24"}, {"S24_3", "U24_3"},
      {"S32", "U32"}, {"FLOAT"} }

sfmt_same_bps(f1, f2) == \E c \in SameWidthClasses : f1.enc \in c /\ f2.enc \in c

sfmt_set_fmt(fmt, enc) == [fmt EXCEPT !.enc = enc]
sfmt_set_endian(fmt, e) == [fmt EXCEPT !.end = e]

SizeofFloat == 4

(***************************************************************************)
(* Sound parameters and the inputs the model draws them from.              *)
(***************************************************************************)
Channels == {1, 2, 6}
Params(F, R) == [fmt : F, rate : R, channels : Channels]
\* Spec: every format pair, the source at either rate
FromParams == Params(Formats, {44100, 48000})
ToParams == Params(Formats, {48000})
\* SpecRs: a few formats, every rate pair
RsFormats == { [enc |-> "S16", end |-> "BE"], [enc |-> "FLOAT", end |-> "LE"] }
RsParams == Params(RsFormats, {44100, 48000})
\* SpecOpt: the same without the six-channel requests
OptParams == {p \in RsParams : p.channels # 6}

(***************************************************************************)
(* Options.  ResampleMethod is compared with strcasecmp: a value is its    *)
(* spelling, LowerCase is what strcasecmp compares.                        *)
(***************************************************************************)
MethodValues == {"Linear", "SINCFASTEST", "zeroorderhold", "Cubic"}
LowerCase(s) ==
    CASE s = "Linear" -> "linear"
      [] s = "SINCFASTEST" -> "sincfastest"
      [] s = "Cubic" -> "cubic"
      [] s = "SincBestQuality" -> "sincbestquality"
      [] s = "SincMediumQuality" -> "sincmediumquality"
      [] s = "sincMediumQuality" -> "sincmediumquality"
      [] s = "SincFastest" -> "sincfastest"
      [] s = "ZeroOrderHold" -> "zeroorderhold"
      [] OTHER -> s
strcasecmp(a, b) == IF LowerCase(a) = LowerCase(b) THEN 0 ELSE 1

DefaultOpts == [EnableResample |-> 1, ResampleMethod |-> "Linear"]

(***************************************************************************)
(* struct audio_conversion.  src_state is 0 (NULL) or 1 (a SRC_STATE);     *)
(* resample_buf is the carry buffer, rb says whether it is allocated, its  *)
(* content is the sequence of the frames it holds (one identity a frame).  *)
(***************************************************************************)
NoParams == [fmt |-> [enc |-> "S16", end |-> SFMT_NE], rate |-> 44100, channels |-> 2]
NoConv ==
    [from |-> NoParams, to |-> NoParams, src_state |-> 0, rb |-> FALSE,
     resample_buf |-> <<>>, resample_buf_nsamples |-> 0]
NoHist ==
    [given |-> 0, fed |-> <<>>, used |-> <<>>, calls |-> 0, src_new |-> 0,
     src_delete |-> 0, rb_alloc |-> 0, rb_free |-> 0, resampled |-> 0]
NoBuild == [called |-> FALSE, ret |-> "none", from |-> NoParams, to |-> NoParams,
            opts |-> DefaultOpts, src_new |-> 0]

(***************************************************************************)
(* audio_conv_new.                                                         *)
(***************************************************************************)
\* the assert on entry: the two parameter sets differ in some field
ParamsDiffer(from, to) ==
    from.rate # to.rate \/ from.fmt # to.fmt \/ from.channels # to.channels

\* a variant that drops the two up/down-mix cases of line 765
ChannelsOnlyEqual(from, to) == from.channels = to.channels

\* "the only conversion we can do"
ChannelsSupported(from, to) ==
    \/ from.channels = to.channels
    \/ (from.channels = 1 \/ from.channels = 6) /\ to.channels = 2

RatesDiffer(from, to) == from.rate # to.rate

\* a variant that tests the option outside the "rates differ" branch of line 772
ResampleDisabledAlways(from, to, o) == o.EnableResample = 0

ResampleDisabled(from, to, o) == RatesDiffer(from, to) /\ o.EnableResample = 0

\* a variant that compares the spelling exactly (strcmp)
MethodKnownExact(method) ==
    method \in {"SincBestQuality", "SincMediumQuality", "SincFastest",
                "ZeroOrderHold", "Linear"}

MethodKnown(method) ==
    \/ strcasecmp(method, "SincBestQuality") = 0
    \/ strcasecmp(method, "SincMediumQuality") = 0
    \/ strcasecmp(method, "SincFastest") = 0
    \/ strcasecmp(method, "ZeroOrderHold") = 0
    \/ strcasecmp(method, "Linear") = 0

\* The outcome of audio_conv_new(conv, from, to) under options o, build flag
\* nd and with src_new succeeding or not: what it returns, the descriptor it
\* leaves, and whether a resampler context was created.
audio_conv_new(from, to, o, nd, src_ok) ==
    IF ~nd /\ ~ParamsDiffer(from, to)
    THEN [ret |-> "abort", conv |-> NoConv, src_new |-> 0]
    ELSE IF ~ChannelsSupported(from, to)
    THEN [ret |-> "error", conv |-> NoConv, src_new |-> 0]
    ELSE IF ResampleDisabled(from, to, o)
    THEN [ret |-> "error", conv |-> NoConv, src_new |-> 0]
    ELSE IF RatesDiffer(from, to) /\ ~MethodKnown(o.ResampleMethod)
    THEN [ret |-> "fatal", conv |-> NoConv, src_new |-> 0]
    ELSE IF RatesDiffer(from, to) /\ ~src_ok
    THEN [ret |-> "error", conv |-> NoConv, src_new |-> 0]
    ELSE [ret |-> "ok",
          conv |-> [from |-> from, to |-> to,
                    src_state |-> IF RatesDiffer(from, to) THEN 1 ELSE 0,
                    rb |-> FALSE, resample_buf |-> <<>>,
                    resample_buf_nsamples |-> 0],
          src_new |-> IF RatesDiffer(from, to) THEN 1 ELSE 0]

Build(PF, PT) ==
    /\ phase = "none"
    /\ \E from \in PF, to \in PT, src_ok \in BOOLEAN :
         LET r == audio_conv_new(from, to, opts, ndebug, src_ok) IN
         /\ conv' = r.conv
         /\ phase' = CASE r.ret = "ok" -> "built"
                       [] r.ret = "error" -> "nobuild"
                       [] OTHER -> "dead"
         /\ hist' = [NoHist EXCEPT !.src_new = r.src_new]
         /\ bres' = [called |-> TRUE, ret |-> r.ret, from |-> from, to |-> to,
                     opts |-> opts, src_new |-> r.src_new]
    /\ UNCHANGED <<ndebug, opts, cres, samp>>

(***************************************************************************)
(* Memory of one audio_conv call.  A buffer pointer is NULL, BUF (the      *)
(* caller's input) or an index into heap, the allocations made during the  *)
(* call, each with its byte size and the number of times it was freed.     *)
(* st is "run" while the call executes, "abort" after abort(), "assert"    *)
(* after a failed assert, "crash" after a memory fault.                    *)
(***************************************************************************)
NULL == 0
BUF == 0 - 1

Min(a, b) == IF a < b THEN a ELSE b
RoundDown(n, k) == (n \div k) * k
RoundUp(n, k) == ((n + k - 1) \div k) * k

AllocBytes(w, p) ==
    IF p = BUF THEN w.size ELSE IF p = NULL THEN 0 ELSE w.heap[p].bytes

xmalloc(w, bytes) == [w EXCEPT !.heap = Append(@, [bytes |-> bytes, frees |-> 0])]
Newest(w) == Len(w.heap)

free(w, p) ==
    IF p = NULL THEN w
    ELSE IF p = BUF THEN [w EXCEPT !.in_frees = @ + 1]
    ELSE [w EXCEPT !.heap[p].frees = @ + 1]

\* reading rd bytes from, and writing wr bytes to, the buffer p
Access(w, p, rd, wr) ==
    IF rd = 0 /\ wr = 0 THEN w
    ELSE IF p = NULL THEN [w EXCEPT !.st = "crash"]
    ELSE [w EXCEPT !.oobr = @ \/ rd > AllocBytes(w, p),
                   !.oobw = @ \/ wr > AllocBytes(w, p),
                   !.in_written = @ \/ (p = BUF /\ wr > 0),
                   !.uaf = @ \/ (p > 0 /\ w.heap[p].frees > 0)]

Stage(w, name) ==
    [w EXCEPT !.trace = Append(@, [stage |-> name, sfmt |-> w.sfmt, len |-> w.len,
                                    alloc |-> AllocBytes(w, w.sound),
                                    nsamp |-> w.nsamp])]

\* a variant that replaces the working buffer without freeing the old one
ReplaceSoundLeak(w, new) == [w EXCEPT !.sound = new]

\* "if (curr_sound != buf) free (curr_sound); curr_sound = new_sound;"
ReplaceSound(w, new) ==
    [(IF w.sound # BUF THEN free(w, w.sound) ELSE w) EXCEPT !.sound = new]

\* a variant that works on the caller's buffer instead of a copy of it
InitialSoundAliased(size) == [sound |-> BUF, heap |-> <<>>]

\* lines 1105-1106: the working buffer starts as a copy of the input
InitialSound(size) ==
    [sound |-> 1, heap |-> <<[bytes |-> size, frees |-> 0]>>]

StartCall(c, size, nsamp, nd) ==
    LET i == InitialSound(size) IN
    Stage([sfmt |-> c.from.fmt, len |-> size, size |-> size, sound |-> i.sound,
           new |-> NULL, heap |-> i.heap, trace |-> <<>>, st |-> "run",
           nd |-> nd, in_written |-> FALSE, in_frees |-> 0, oobr |-> FALSE,
           oobw |-> FALSE, uaf |-> FALSE, nsamp |-> nsamp,
           rs_called |-> FALSE, rs_err |-> FALSE],
          "copy")

(***************************************************************************)
(* swap_endian (in place).                                                 *)
(***************************************************************************)
swap_endian(w, size, fmt) ==
    IF fmt.enc \in {"S8", "U8", "FLOAT"} THEN w
    ELSE CASE fmt.enc \in {"S16", "U16"} ->
                Access(w, w.sound, RoundDown(size, 2), RoundDown(size, 2))
           [] fmt.enc \in {"S24", "U24", "S32", "U32"} ->
                Access(w, w.sound, RoundDown(size, 4), RoundDown(size, 4))
           [] fmt.enc \in {"S24_3", "U24_3"} ->
                Access(w, w.sound, RoundUp(size, 3), RoundUp(size, 3))
           [] OTHER -> [w EXCEPT !.st = "abort"]

\* lines 1108-1111
NeedSwapIn(w) == w.sfmt.end # SFMT_NE

StSwapIn(w) ==
    IF w.st # "run" \/ ~NeedSwapIn(w) THEN w
    ELSE LET v == swap_endian(w, w.len, w.sfmt) IN
         IF v.st # "run" THEN v
         ELSE Stage([v EXCEPT !.sfmt = sfmt_set_endian(w.sfmt, SFMT_NE)], "swap_in")

(***************************************************************************)
(* The bit-width reducers and their selection, lines 1113-1212.            *)
(***************************************************************************)
\* a reducer reading samples of inB bytes and returning samples of outB bytes
Reduce(w, samples, inB, outB) ==
    LET v == Access(w, w.sound, samples * inB, 0)
        a == xmalloc(v, samples * outB) IN
    [ReplaceSound(a, Newest(a)) EXCEPT !.nsamp = samples]

Fast32to24_3Cond(c, w) ==
    /\ w.sfmt.enc \in {"S32", "U32"}
    /\ c.to.fmt.enc \in {"S24_3", "U24_3"}
    /\ c.from.rate = c.to.rate

Fast32to24_3Len(len) == (len * 3) \div 4

StFast32to24_3(c, w) ==
    IF w.st # "run" \/ ~Fast32to24_3Cond(c, w) THEN w
    ELSE LET v == Reduce(w, w.len \div 4, 4, 3) IN
         Stage([v EXCEPT
                  !.sfmt = sfmt_set_fmt(w.sfmt,
                              IF w.sfmt.enc = "S32" THEN "S24_3" ELSE "U24_3"),
                  !.len = Fast32to24_3Len(w.len)],
               "fast_32_24_3")

Fast32to16Cond(c, w) ==
    /\ w.sfmt.enc \in {"S32", "U32"}
    /\ c.to.fmt.enc \in {"S16", "U16"}
    /\ c.from.rate = c.to.rate

Fast32to16Len(len) == len \div 2

StFast32to16(c, w) ==
    IF w.st # "run" \/ ~Fast32to16Cond(c, w) THEN w
    ELSE LET v == Reduce(w, w.len \div 4, 4, 2) IN
         Stage([v EXCEPT
                  !.sfmt = sfmt_set_fmt(w.sfmt,
                              IF w.sfmt.enc = "S32" THEN "S16" ELSE "U16"),
                  !.len = Fast32to16Len(w.len)],
               "fast_32_16")

Fast32to24Cond(c, w) ==
    /\ w.sfmt.enc \in {"S32", "U32"}
    /\ c.to.fmt.enc \in {"S24", "U24"}
    /\ c.from.rate = c.to.rate

\* a variant with line 1184 ("*conv_len /= 2") not commented out
Fast32to24LenHalved(len) == len \div 2

Fast32to24Len(len) == len

StFast32to24(c, w) ==
    IF w.st # "run" \/ ~Fast32to24Cond(c, w) THEN w
    ELSE LET v == Reduce(w, w.len \div 4, 4, 4) IN
         Stage([v EXCEPT
                  !.sfmt = sfmt_set_fmt(w.sfmt,
                              IF w.sfmt.enc = "S32" THEN "S24" ELSE "U24"),
                  !.len = Fast32to24Len(w.len)],
               "fast_32_24")

Fast24to16Cond(c, w) ==
    /\ w.sfmt.enc \in {"S24", "U24"}
    /\ c.to.fmt.enc \in {"S16", "U16"}
    /\ c.from.rate = c.to.rate

Fast24to16Len(len) == len \div 2

StFast24to16(c, w) ==
    IF w.st # "run" \/ ~Fast24to16Cond(c, w) THEN w
    ELSE LET v == Reduce(w, w.len \div 4, 4, 2) IN
         Stage([v EXCEPT
                  !.sfmt = sfmt_set_fmt(w.sfmt,
                              IF w.sfmt.enc = "S24" THEN "S16" ELSE "U16"),
                  !.len = Fast24to16Len(w.len)],
               "fast_24_16")

(***************************************************************************)
(* fixed_to_float and the "convert to float if necessary" stage,           *)
(* lines 481-547 and 1215-1229.                                            *)
(***************************************************************************)
FixedEncodings == Encodings \ {"FLOAT"}

\* the divisor of the case of fmt in the switch: 1, 2, 3 or 4
FixedWidth(fmt) ==
    CASE fmt.enc \in {"S8", "U8"} -> 1
      [] fmt.enc \in {"S16", "U16"} -> 2
      [] fmt.enc \in {"S24_3", "U24_3"} -> 3
      [] OTHER -> 4

\* *new_size of fixed_to_float for size bytes in format fmt
FixedToFloatSize(size, fmt) == (SizeofFloat * size) \div FixedWidth(fmt)

\* the sample count handed to the u8_to_float .. s32_to_float loops
FixedToFloatSamples(size, fmt) == size \div FixedWidth(fmt)

\* fixed_to_float(curr_sound, size, fmt, &new_size); the new buffer is w.new
fixed_to_float(w, size, fmt) ==
    IF fmt.enc \notin FixedEncodings THEN [w EXCEPT !.st = "abort"]
    ELSE LET n == FixedToFloatSamples(size, fmt)
             a == xmalloc(w, FixedToFloatSize(size, fmt))
             v == IF w.sound = NULL /\ ~w.nd
                  THEN [a EXCEPT !.st = "assert"]
                  ELSE Access(a, w.sound, n * FixedWidth(fmt), 0) IN
         [v EXCEPT !.len = FixedToFloatSize(size, fmt), !.nsamp = n,
                   !.new = Newest(a)]

\* a variant that does not compare the widths
ToFloatCondRates(c, w) ==
    /\ \/ c.from.rate # c.to.rate
       \/ c.to.fmt.enc = "FLOAT"
    /\ w.sfmt.enc # "FLOAT"

\* the condition of lines 1216-1219
ToFloatCond(c, w) ==
    /\ \/ c.from.rate # c.to.rate
       \/ c.to.fmt.enc = "FLOAT"
       \/ ~sfmt_same_bps(c.to.fmt, w.sfmt)
    /\ w.sfmt.enc # "FLOAT"

StToFloat(c, w) ==
    IF w.st # "run" \/ ~ToFloatCond(c, w) THEN w
    ELSE LET v == fixed_to_float(w, w.len, w.sfmt) IN
         IF v.st # "run" THEN v
         ELSE Stage([ReplaceSound(v, v.new) EXCEPT
                        !.sfmt = sfmt_set_fmt(w.sfmt, "FLOAT")],
                    "to_float")

(***************************************************************************)
(* resample_sound, lines 824-898, and the resample stage, lines 1231-1242. *)
(* src_process is the library: each call either fails or uses some of the  *)
(* input frames it is offered and generates some of the output frames it   *)
(* has room for.  SrcRuns is the set of ways the do-while loop can end.    *)
(***************************************************************************)
\* one pass of the do-while loop (lines 856-873) from the loop state s: the
\* call fails, or it uses u frames and generates g, and the loop goes on while
\* input is left, something was generated and room is left
SrcPass(s) ==
    {[s EXCEPT !.end = "err"]} \cup
    { [in |-> s.in - u, out |-> s.out - g, used |-> s.used + u, gen |-> s.gen + g,
       end |-> IF s.in - u # 0 /\ g # 0 /\ s.out - g # 0 THEN "again" ELSE "done"]
      : <<u, g>> \in (0..s.in) \X (0..s.out) }

RECURSIVE SrcLoop(_, _)
SrcLoop(todo, seen) ==
    IF todo = {} THEN seen
    ELSE LET next == UNION {SrcPass(s) : s \in todo} IN
         SrcLoop({s \in next : s.end = "again"} \ seen, seen \cup next)

\* the ways the loop can end, each with the frames used and generated in all
SrcRuns(in, out) ==
    LET start == [in |-> in, out |-> out, used |-> 0, gen |-> 0, end |-> "again"]
        all == SrcLoop({start}, {}) IN
    { [used |-> s.used, gen |-> s.gen, err |-> s.end = "err"]
      : s \in {t \in all : t.end # "again"} }
NoRun == [used |-> 0, gen |-> 0, err |-> FALSE]

\* resample_data.input_frames and .output_frames, lines 835-838
InputFrames(c, samples, nchannels) ==
    samples \div nchannels + c.resample_buf_nsamples \div nchannels
OutputFrames(c, in) == (in * c.to.rate) \div c.from.rate

Take(s, n) == SubSeq(s, 1, Min(n, Len(s)))
Drop(s, n) == SubSeq(s, n + 1, Len(s))
Garbage(n) == [i \in 1..n |-> 0]

\* the frames of a float buffer said to hold samples samples: the identities
\* of the call's input frames, and 0 for what lies beyond them
FramesOf(ids, samples, nchannels) ==
    LET n == samples \div nchannels IN
    Take(ids, n) \o Garbage(n - Min(n, Len(ids)))

\* lines 841-853: the carry buffer is grown and the new input appended at
\* resample_buf + resample_buf_nsamples
Combined(c, frames, nchannels) ==
    Take(c.resample_buf, c.resample_buf_nsamples \div nchannels) \o frames

\* a variant of lines 877-895 that never moves the tail to the buffer's start
CarryAfterKeepAll(c, content, used, nchannels) ==
    LET left == Len(content) - used IN
    IF left # 0
    THEN [c EXCEPT !.resample_buf_nsamples = left * nchannels,
                   !.rb = TRUE, !.resample_buf = content]
    ELSE [c EXCEPT !.resample_buf_nsamples = 0, !.rb = FALSE, !.resample_buf = <<>>]

\* a variant of lines 891-895 without the reset of resample_buf_nsamples
CarryAfterStaleLength(c, content, used, nchannels) ==
    LET left == Len(content) - used IN
    IF left # 0
    THEN [c EXCEPT !.resample_buf_nsamples = left * nchannels,
                   !.rb = TRUE,
                   !.resample_buf = IF used # 0 THEN Drop(content, used) ELSE content]
    ELSE [c EXCEPT !.rb = FALSE, !.resample_buf = <<>>]

\* lines 877-895: what is left in the descriptor after the loop
CarryAfter(c, content, used, nchannels) ==
    LET left == Len(content) - used IN
    IF left # 0
    THEN [c EXCEPT !.resample_buf_nsamples = left * nchannels,
                   !.rb = TRUE,
                   !.resample_buf = IF used # 0 THEN Drop(content, used) ELSE content]
    ELSE [c EXCEPT !.resample_buf_nsamples = 0, !.rb = FALSE, !.resample_buf = <<>>]

\* lines 859-863: src_process failed; the grown buffer stays in the descriptor
CarryOnError(c, content) == [c EXCEPT !.rb = TRUE, !.resample_buf = content]

\* a variant that looks at the EnableResample option on every call
ResampleCondOption(c) == c.from.rate # c.to.rate /\ opts.EnableResample # 0

\* a variant that enters the resample stage whatever the rates are
ResampleAlways(c) == TRUE

\* the resample stage is entered (line 1232)
ResampleCond(c) == c.from.rate # c.to.rate

\* The stage for one way r of the loop to end.  x = [w, conv, hist].
StResample(x, ids, r) ==
    LET w == x.w
        c == x.conv
        h == x.hist IN
    IF w.st # "run" \/ ~ResampleCond(c) THEN x
    ELSE
    LET nch == c.from.channels
        samples == w.len \div SizeofFloat
        frames == FramesOf(ids, samples, nch)
        content == Combined(c, frames, nch)
        in == InputFrames(c, samples, nch)
        out == OutputFrames(c, in)
        rd == Access(w, w.sound, samples * SizeofFloat, 0)
        a == xmalloc(rd, SizeofFloat * out * nch)
        o == Newest(a)
        grew == IF c.rb THEN 0 ELSE 1
        h1 == [h EXCEPT !.fed = @ \o frames,
                        !.used = @ \o Take(content, r.used),
                        !.resampled = @ + 1,
                        !.rb_alloc = @ + grew]
    IN
    IF r.err
    THEN [w |-> Stage([ReplaceSound(free(a, o), NULL) EXCEPT
                          !.len = w.len * SizeofFloat,
                          !.rs_called = TRUE, !.rs_err = TRUE],
                      "resample"),
          conv |-> CarryOnError(c, content),
          hist |-> h1]
    ELSE [w |-> Stage([ReplaceSound(a, o) EXCEPT
                          !.len = r.gen * nch * SizeofFloat,
                          !.nsamp = r.gen * nch,
                          !.rs_called = TRUE],
                      "resample"),
          conv |-> CarryAfter(c, content, r.used, nch),
          hist |-> [h1 EXCEPT
                      !.rb_alloc = @ + (IF Len(content) - r.used # 0 /\ r.used # 0
                                        THEN 1 ELSE 0),
                      !.rb_free = @ + (IF Len(content) - r.used = 0 \/ r.used # 0
                                       THEN 1 ELSE 0)]]

(***************************************************************************)
(* change_sign, float_to_fixed and the target-encoding stage,              *)
(* lines 551-695 and 1244-1263.                                            *)
(***************************************************************************)
FlippedEnc(enc) ==
    CASE enc = "S8" -> "U8"   [] enc = "U8" -> "S8"
      [] enc = "S16" -> "U16" [] enc = "U16" -> "S16"
      [] enc = "S24" -> "U24" [] enc = "U24" -> "S24"
      [] enc = "S32" -> "U32" [] enc = "U32" -> "S32"
      [] OTHER -> enc

\* change_sign(buf, size, &fmt): size bytes of the buffer are flipped in place
change_sign(w, size, fmt) ==
    CASE fmt.enc \in {"S8", "U8"} ->
           [Access(w, w.sound, size, size) EXCEPT
               !.sfmt = sfmt_set_fmt(fmt, FlippedEnc(fmt.enc))]
      [] fmt.enc \in {"S16", "U16"} ->
           [Access(w, w.sound, RoundDown(size, 2), RoundDown(size, 2)) EXCEPT
               !.sfmt = sfmt_set_fmt(fmt, FlippedEnc(fmt.enc))]
      [] fmt.enc \in {"S24", "U24", "S32", "U32"} ->
           [Access(w, w.sound, RoundDown(size, 4), RoundDown(size, 4)) EXCEPT
               !.sfmt = sfmt_set_fmt(fmt, FlippedEnc(fmt.enc))]
      [] OTHER -> [w EXCEPT !.st = "abort"]

\* *new_size of float_to_fixed for samples samples and target format fmt
FloatToFixedSize(samples, fmt) == samples * FixedWidth(fmt)

\* float_to_fixed(curr_sound, samples, fmt, &new_size); the new buffer is w.new
float_to_fixed(w, samples, fmt) ==
    IF fmt.enc \notin FixedEncodings THEN [w EXCEPT !.st = "abort"]
    ELSE LET a == xmalloc(w, FloatToFixedSize(samples, fmt))
             v == IF w.sound = NULL /\ ~w.nd
                  THEN [a EXCEPT !.st = "assert"]
                  ELSE Access(a, w.sound, samples * SizeofFloat, 0) IN
         [v EXCEPT !.len = FloatToFixedSize(samples, fmt), !.nsamp = samples,
                   !.new = Newest(a)]

TargetCond(c, w) == w.sfmt.enc # c.to.fmt.enc

\* the byte count handed to change_sign at line 1248
ChangeSignSize(w) == w.size

StTarget(c, w) ==
    IF w.st # "run" \/ ~TargetCond(c, w) THEN w
    ELSE IF sfmt_same_bps(w.sfmt, c.to.fmt)
    THEN LET v == change_sign(w, ChangeSignSize(w), w.sfmt) IN
         IF v.st # "run" THEN v ELSE Stage(v, "change_sign")
    ELSE IF w.sfmt.enc # "FLOAT" /\ ~w.nd THEN [w EXCEPT !.st = "assert"]
    ELSE LET v == float_to_fixed(w, w.len \div SizeofFloat, c.to.fmt) IN
         IF v.st # "run" THEN v
         ELSE Stage([ReplaceSound(v, v.new) EXCEPT
                        !.sfmt = sfmt_set_fmt(w.sfmt, c.to.fmt.enc)],
                    "float_to_fixed")

(***************************************************************************)
(* mono_to_stereo, ch6_to_stereo and the channel stages,                   *)
(* lines 902-989 and 1265-1286.                                            *)
(***************************************************************************)
mono_to_stereo(w, size, format) ==
    LET Bps == sfmt_Bps(format)
        a == xmalloc(w, size * 2)
        rd == Access(a, w.sound, RoundUp(size, Bps), 0)
        wr == Access(rd, Newest(a), 0, 2 * RoundUp(size, Bps)) IN
    [wr EXCEPT !.new = Newest(a)]

MonoCond(c) == c.from.channels = 1 /\ c.to.channels = 2

StMono(c, w) ==
    IF w.st # "run" \/ ~MonoCond(c) THEN w
    ELSE LET v == mono_to_stereo(w, w.len, w.sfmt) IN
         IF v.st # "run" THEN v
         ELSE Stage([ReplaceSound(v, v.new) EXCEPT
                        !.len = w.len * 2, !.nsamp = w.nsamp * 2],
                    "mono_to_stereo")

\* the sample encodings the down-mix has a loop for
Ch6Encodings == {"S16", "FLOAT", "S32"}

ch6_to_stereo(w, size, format) ==
    LET Bps == sfmt_Bps(format)
        a == xmalloc(w, size \div 3)
        k == (size + 6 * Bps - 1) \div (6 * Bps)
        rd == Access(a, w.sound, k * 6 * Bps, 0)
        wr == Access(rd, Newest(a), 0, k * 2 * Bps) IN
    IF format.enc \in Ch6Encodings
    THEN [wr EXCEPT !.new = Newest(a)]
    ELSE [a EXCEPT !.st = "abort"]

Ch6Cond(c) == c.from.channels = 6 /\ c.to.channels = 2

\* the format ch6_to_stereo is told the buffer has (line 1280)
Ch6Format(c, w) == c.from.fmt

StCh6(c, w) ==
    IF w.st # "run" \/ ~Ch6Cond(c) THEN w
    ELSE LET v == ch6_to_stereo(w, w.len, Ch6Format(c, w)) IN
         IF v.st # "run" THEN v
         ELSE Stage([ReplaceSound(v, v.new) EXCEPT
                        !.len = w.len \div 3, !.nsamp = w.nsamp \div 3],
                    "ch6_to_stereo")

\* a variant without the final endianness fix-up
NeverSwapOut(c, w) == FALSE

\* lines 1288-1293
SwapOutCond(c, w) == w.sfmt.end # c.to.fmt.end

StSwapOut(c, w) ==
    IF w.st # "run" \/ ~SwapOutCond(c, w) THEN w
    ELSE LET v == swap_endian(w, w.len, w.sfmt) IN
         IF v.st # "run" THEN v
         ELSE Stage([v EXCEPT !.sfmt = sfmt_set_endian(w.sfmt, c.to.fmt.end)],
                    "swap_out")

(***************************************************************************)
(* audio_conv.                                                             *)
(***************************************************************************)
\* a variant that leaves the buffer in its fixed-point encoding
BeforeResampleFixed(c, size, nsamp, nd) ==
    StFast24to16(c, StFast32to24(c, StFast32to16(c,
        StFast32to24_3(c, StSwapIn(StartCall(c, size, nsamp, nd))))))

\* stages up to and including the conversion to float
BeforeResample(c, size, nsamp, nd) ==
    StToFloat(c, StFast24to16(c, StFast32to24(c, StFast32to16(c,
        StFast32to24_3(c, StSwapIn(StartCall(c, size, nsamp, nd)))))))

\* stages after the resample stage
AfterResample(c, w) == StSwapOut(c, StCh6(c, StMono(c, StTarget(c, w))))

\* the ways the resample stage of this call can go
RunsOf(c, w) ==
    IF w.st = "run" /\ ResampleCond(c)
    THEN LET in == InputFrames(c, w.len \div SizeofFloat, c.from.channels) IN
         SrcRuns(in, OutputFrames(c, in))
    ELSE {NoRun}

\* no converter has been applied to data yet
NoSamples == [op |-> "none"]

NoCall ==
    [called |-> FALSE, n |-> 0, ret |-> NULL, st |-> "none",
     w |-> StartCall(NoConv, 0, 0, FALSE)]

\* audio_conv(conv, buf, size, &conv_len) on n whole frames; w3, x and w7 are
\* the call after the conversion to float, after the resample stage and at
\* the return
ConvertCall(F, K) ==
    /\ phase = "built"
    /\ hist.calls < K
    /\ \E n \in 0..F :
       \E w3 \in {BeforeResample(conv, n * conv.from.channels * sfmt_Bps(conv.from.fmt),
                                 n * conv.from.channels, ndebug)} :
       \E r \in RunsOf(conv, w3) :
       \E x \in {StResample([w |-> w3, conv |-> conv, hist |-> hist],
                            [i \in 1..n |-> hist.given + i], r)} :
       \E w7 \in {AfterResample(x.conv, x.w)} :
       \E fault \in (IF w7.oobr \/ w7.oobw THEN BOOLEAN ELSE {FALSE}) :
       \E st \in {IF w7.st = "run" THEN (IF fault THEN "crash" ELSE "ok") ELSE w7.st} :
         /\ cres' = [called |-> TRUE, n |-> n, st |-> st,
                     ret |-> IF st = "ok" THEN w7.sound ELSE NULL, w |-> w7]
         /\ conv' = x.conv
         /\ hist' = [x.hist EXCEPT !.calls = @ + 1, !.given = @ + n]
         /\ phase' = IF st # "ok" THEN "dead"
                     ELSE IF w7.rs_err THEN "failed" ELSE "built"
    /\ UNCHANGED <<ndebug, opts, bres>>

\* a call whose samples are not followed
Convert(F, K) == ConvertCall(F, K) /\ UNCHANGED samp

(***************************************************************************)
(* zita_resample_sound, lines 54-85: the alternative resampler.  process() *)
(* is the library: it may fail, and it leaves inp_count of the input       *)
(* frames unread and out_count of the output frames unwritten.             *)
(***************************************************************************)
ZitaExtraFrames == 10

\* *resampled_samples before process(), line 60
ZitaOutputSamples(c, samples, nchannels) ==
    ((samples * c.to.rate) \div (c.from.rate * nchannels) + ZitaExtraFrames) * nchannels

\* the call on a float buffer of samples samples of which process() leaves
\* inp_count input frames and out_count output frames
zita_resample_sound(c, w, samples, nchannels, inp_count, out_count) ==
    LET total == ZitaOutputSamples(c, samples, nchannels)
        a == xmalloc(w, SizeofFloat * total)
        rd == Access(a, w.sound, (samples \div nchannels - inp_count) * nchannels
                                   * SizeofFloat, 0) IN
    [rd EXCEPT !.sound = Newest(a),
               !.nsamp = total - out_count * nchannels,
               !.len = (total - out_count * nchannels) * SizeofFloat]

\* the float buffer of n frames the function is handed
ZitaInput(c, n, nd) ==
    [StartCall(c, n * c.from.channels * SizeofFloat, n * c.from.channels, nd)
       EXCEPT !.sfmt = [enc |-> "FLOAT", end |-> SFMT_NE], !.sound = BUF,
              !.heap = <<>>, !.trace = <<>>]

ZitaResample(F, K) ==
    /\ phase = "built"
    /\ conv.from.rate # conv.to.rate
    /\ hist.calls < K
    /\ \E n \in 0..F, failed \in BOOLEAN :
       \E inp_count \in 0..n :
       \E out_count \in 0..(ZitaOutputSamples(conv, n * conv.from.channels,
                                              conv.from.channels)
                              \div conv.from.channels) :
       \E w \in {Stage(zita_resample_sound(conv, ZitaInput(conv, n, ndebug),
                                           n * conv.from.channels,
                                           conv.from.channels, inp_count, out_count),
                       "zita_resample")} :
         /\ cres' = [called |-> TRUE, n |-> n, st |-> "ok", ret |-> w.sound, w |-> w]
         /\ hist' = [hist EXCEPT
                       !.calls = @ + 1, !.given = @ + n,
                       !.fed = @ \o [i \in 1..n |-> hist.given + i],
                       !.used = @ \o [i \in 1..(n - inp_count) |-> hist.given + i]]
    /\ UNCHANGED <<ndebug, opts, phase, conv, bres, samp>>

\* a variant that releases the resampler context but not the carry buffer
DestroyKeepsCarry ==
    /\ phase \in {"built", "failed"}
    /\ phase' = "destroyed"
    /\ hist' = [hist EXCEPT !.src_delete = @ + (IF conv.src_state # 0 THEN 1 ELSE 0)]
    /\ UNCHANGED <<ndebug, opts, conv, bres, cres, samp>>

\* audio_conv_destroy, lines 1298-1308
Destroy ==
    /\ phase \in {"built", "failed"}
    /\ phase' = "destroyed"
    /\ hist' = [hist EXCEPT !.rb_free = @ + (IF conv.rb THEN 1 ELSE 0),
                            !.src_delete = @ + (IF conv.src_state # 0 THEN 1 ELSE 0)]
    /\ UNCHANGED <<ndebug, opts, conv, bres, cres, samp>>

\* the options change (the configuration is reloaded or set by the user)
SetOption ==
    /\ phase \in {"none", "built"}
    /\ \E e \in {0, 1}, m \in MethodValues :
         /\ opts' = [EnableResample |-> e, ResampleMethod |-> m]
         /\ opts' # opts
    /\ UNCHANGED <<ndebug, phase, conv, hist, bres, cres, samp>>

(***************************************************************************)
(* The sample converters, on sample values.  A float sample is written as  *)
(* the integer q that stands for q / 2^23, -2^23 <= q <= 2^23: these are   *)
(* the floats of [-1, 1] that are multiples of 2^-23, and the 8, 16 and 24 *)
(* bit decoders produce no others.  A fixed-point sample is the sequence   *)
(* of its bytes in memory on a little-endian build.                        *)
(***************************************************************************)
RECURSIVE Pow2(_)
Pow2(n) == IF n = 0 THEN 1 ELSE 2 * Pow2(n - 1)

Abs(n) == IF n < 0 THEN 0 - n ELSE n
Sign(n) == IF n < 0 THEN 0 - 1 ELSE 1

\* the float 1.0
One == Pow2(23)

S24_MAX == Pow2(23) - 1
S24_MIN == 0 - Pow2(23)
U24_MAX == Pow2(24) - 1

\* n / d rounded to the nearest integer, a half to the even neighbour: the
\* default rounding mode, which lrintf and the float multiplication use
RoundHalfEven(n, d) ==
    LET fl == n \div d
        r  == n % d
    IN  IF 2 * r > d THEN fl + 1
        ELSE IF 2 * r < d THEN fl
        ELSE IF fl % 2 = 0 THEN fl ELSE fl + 1

RECURSIVE FloorLog2(_)
FloorLog2(n) == IF n < 2 THEN 0 ELSE 1 + FloorLog2(n \div 2)

\* the float nearest to int + frac / 2^23 (0 <= int < 2^23, 0 <= frac < 2^23):
\* a float keeps 24 significant bits, so below int's top bit 2^k it keeps
\* 23 - k bits of the fraction
FloatRound(int, frac) ==
    IF int = 0 THEN [int |-> 0, frac |-> frac]
    ELSE LET step == Pow2(FloorLog2(int))
             kept == RoundHalfEven(frac, step) * step
         IN  IF kept = One THEN [int |-> int + 1, frac |-> 0]
             ELSE [int |-> int, frac |-> kept]

\* lrintf of the float int + frac / 2^23
Lrint(f) ==
    IF 2 * f.frac > One THEN f.int + 1
    ELSE IF 2 * f.frac < One THEN f.int
    ELSE IF f.int % 2 = 0 THEN f.int ELSE f.int + 1

\* the magnitude of "float f = in[i] * S24_MAX" (lines 218, 239, 259, 284):
\* |q| * (2^23 - 1) / 2^23 = |q| - |q| / 2^23, as a float; below 1.0 this is
\* (|q| - 1) + (2^23 - |q|) / 2^23
TimesS24Max(q) ==
    IF q % One = 0 THEN FloatRound(Abs(q) - (Abs(q) \div One), 0)
    ELSE FloatRound(Abs(q) - (Abs(q) \div One) - 1, One - (Abs(q) % One))

\* the signed 24-bit value float_to_s24 and float_to_s24_3 store, lines
\* 239-246 and 284-291
S24Value(q) ==
    LET f == TimesS24Max(q)
    IN  IF q > 0 /\ f.int >= S24_MAX THEN S24_MAX
        ELSE IF q < 0 /\ f.int >= One THEN S24_MIN
        ELSE Sign(q) * Lrint(f)

\* the unsigned 24-bit value float_to_u24 and float_to_u24_3 store, lines
\* 218-225 and 259-267
U24Value(q) ==
    LET f == TimesS24Max(q)
    IN  IF q > 0 /\ f.int >= S24_MAX THEN U24_MAX
        ELSE IF q < 0 /\ f.int >= One THEN 0
        ELSE Sign(q) * Lrint(f) - S24_MIN

\* "lrintf (in[i] * INT32_MAX) >> sh" for a sample that is not clamped
\* (lines 136-143, 155-162, 176-183, 196-203): (float)INT32_MAX is 2^31, so
\* the product is q * 2^8 exactly, and >> of a negative long keeps its sign
ShiftedInt32(q, sh) == (q * Pow2(8)) \div Pow2(sh)

\* "f >= INT32_MAX" and "f <= INT32_MIN" for f = q * 2^8
AboveInt32(q) == q >= One
BelowInt32(q) == q <= 0 - One

\* the low n bytes of the two's complement of v, lowest first
RECURSIVE LE(_, _)
LE(v, n) == IF n = 0 THEN <<>> ELSE <<v % 256>> \o LE(v \div 256, n - 1)

\* the unsigned and the signed value of bytes stored lowest first
RECURSIVE Unsigned(_)
Unsigned(b) == IF b = <<>> THEN 0 ELSE b[1] + 256 * Unsigned(Tail(b))
SignExtend(v, bits) == IF v >= Pow2(bits - 1) THEN v - Pow2(bits) ELSE v
RECURSIVE Signed(_)
Signed(b) ==
    IF Len(b) = 1 THEN SignExtend(b[1], 8)
    ELSE b[1] + 256 * Signed(Tail(b))

\* float_to_u8, lines 128-145
float_to_u8(q) ==
    IF AboveInt32(q) THEN LE(Pow2(8) - 1, 1)
    ELSE IF BelowInt32(q) THEN LE(0, 1)
    ELSE LE(ShiftedInt32(q, 24) + Pow2(7), 1)

\* float_to_s8, lines 147-164
float_to_s8(q) ==
    IF AboveInt32(q) THEN LE(Pow2(7) - 1, 1)
    ELSE IF BelowInt32(q) THEN LE(0 - Pow2(7), 1)
    ELSE LE(ShiftedInt32(q, 24), 1)

\* float_to_u16, lines 166-185
float_to_u16(q) ==
    IF AboveInt32(q) THEN LE(Pow2(16) - 1, 2)
    ELSE IF BelowInt32(q) THEN LE(0, 2)
    ELSE LE(ShiftedInt32(q, 16) + Pow2(15), 2)

\* float_to_s16, lines 187-205
float_to_s16(q) ==
    IF AboveInt32(q) THEN LE(Pow2(15) - 1, 2)
    ELSE IF BelowInt32(q) THEN LE(0 - Pow2(15), 2)
    ELSE LE(ShiftedInt32(q, 16), 2)

\* float_to_u24 and float_to_s24, lines 207-248: one 32-bit word a sample
float_to_u24(q) == LE(U24Value(q), 4)
float_to_s24(q) == LE(S24Value(q), 4)

\* float_to_u24_3 and float_to_s24_3, lines 250-296: the low three bytes
float_to_u24_3(q) == LE(U24Value(q), 3)
float_to_s24_3(q) == LE(S24Value(q), 3)

\* float_to_u32, lines 299-319: the word written for a sample at or above
\* full scale is INT32_MAX (line 313); otherwise lrintf (f) - INT32_MIN is
\* q * 2^8 + 2^31 = (q + 2^23) * 2^8
INT32_MAX == Pow2(30) - 1 + Pow2(30)
INT32_MIN == 0 - Pow2(30) - Pow2(30)
float_to_u32(q) ==
    IF AboveInt32(q) THEN LE(INT32_MAX, 4)
    ELSE IF BelowInt32(q) THEN LE(0, 4)
    ELSE <<0>> \o LE(q + One, 3)

\* float_to_s32, lines 321-340
float_to_s32(q) ==
    IF AboveInt32(q) THEN LE(INT32_MAX, 4)
    ELSE IF BelowInt32(q) THEN LE(INT32_MIN, 4)
    ELSE LE(ShiftedInt32(q, 0), 4)

\* u8_to_float and s8_to_float, lines 342-363: the value over 2^7
u8_to_float(b) == (Unsigned(b) - Pow2(7)) * Pow2(16)
s8_to_float(b) == Signed(b) * Pow2(16)

\* u16_to_float and s16_to_float, lines 365-388: the value over 2^15
u16_to_float(b) == (Unsigned(b) - Pow2(15)) * Pow2(8)
s16_to_float(b) == Signed(b) * Pow2(8)

\* u24_to_float and s24_to_float, lines 390-414: the 32-bit word over 2^23
\* (words of 24-bit magnitude, which convert to float exactly)
u24_to_float(b) == Unsigned(b) + S24_MIN
s24_to_float(b) == Signed(b)

\* s24_3_to_float, lines 416-433: in_8 is a const int8_t *, so each of the
\* three bytes is read as a signed char before it is shifted and added
s24_3_to_float(b) ==
    SignExtend(b[1], 8) + SignExtend(b[2], 8) * Pow2(8) + SignExtend(b[3], 8) * Pow2(16)

\* u24_3_to_float, lines 435-452: in_8 is a const uint8_t *
u24_3_to_float(b) == b[1] + b[2] * Pow2(8) + b[3] * Pow2(16) + S24_MIN

\* the encodings whose samples the converters above produce and read (the
\* 32-bit normalizers divide by 2^31 + 1, past the integers used here)
SampleEncodings == {"U8", "S8", "U16", "S16", "U24", "S24", "U24_3", "S24_3"}
\* the encodings float_to_fixed produces
QuantizerEncodings == SampleEncodings \cup {"U32", "S32"}

\* the switch of float_to_fixed, lines 561-613, on one sample
FloatToFixedSample(q, enc) ==
    CASE enc = "U8" -> float_to_u8(q)
      [] enc = "S8" -> float_to_s8(q)
      [] enc = "U16" -> float_to_u16(q)
      [] enc = "S16" -> float_to_s16(q)
      [] enc = "U24" -> float_to_u24(q)
      [] enc = "S24" -> float_to_s24(q)
      [] enc = "U24_3" -> float_to_u24_3(q)
      [] enc = "S24_3" -> float_to_s24_3(q)
      [] enc = "U32" -> float_to_u32(q)
      [] enc = "S32" -> float_to_s32(q)

\* the switch of fixed_to_float, lines 490-544, on one sample
FixedToFloatSample(b, enc) ==
    CASE enc = "U8" -> u8_to_float(b)
      [] enc = "S8" -> s8_to_float(b)
      [] enc = "U16" -> u16_to_float(b)
      [] enc = "S16" -> s16_to_float(b)
      [] enc = "U24" -> u24_to_float(b)
      [] enc = "S24" -> s24_to_float(b)
      [] enc = "U24_3" -> u24_3_to_float(b)
      [] enc = "S24_3" -> s24_3_to_float(b)

\* the float samples given to float_to_fixed: 0, quarters up to +-1.0, one
\* step of 2^-23 inside and outside +-1.0, and +-2.0
SampleInputs ==
    {0 - 2 * One, 0 - One - 1, 0 - One, 1 - One, 0 - 3 * Pow2(21), 0 - Pow2(22),
     0 - Pow2(21), 0, Pow2(21), Pow2(22), 3 * Pow2(21), One - 1, One, One + 1,
     2 * One}

\* float_to_fixed is applied to one float sample
FloatToFixed ==
    /\ samp.op = "none"
    /\ \E enc \in QuantizerEncodings, q \in SampleInputs :
         samp' = [op |-> "float_to_fixed", enc |-> enc, in |-> q,
                  fixed |-> FloatToFixedSample(q, enc)]
    /\ UNCHANGED <<ndebug, opts, phase, conv, hist, bres, cres>>

\* fixed_to_float is applied to the sample float_to_fixed returned
FixedToFloat ==
    /\ samp.op = "float_to_fixed"
    /\ samp.enc \in SampleEncodings
    /\ samp' = [op |-> "fixed_to_float", enc |-> samp.enc, in |-> samp.in,
                fixed |-> samp.fixed,
                out |-> FixedToFloatSample(samp.fixed, samp.enc)]
    /\ UNCHANGED <<ndebug, opts, phase, conv, hist, bres, cres>>

(***************************************************************************)
(* audio_conv on samples: the content of the working buffer is taken       *)
(* through the stages the call went through.  A fixed-point buffer is the  *)
(* sequence of its bytes, a float buffer the sequence of its samples q.    *)
(***************************************************************************)
\* a variant that keeps the low half of the word
s32_to_s16_low(in) == LE(Signed(in), 2)

\* s32_to_s16, lines 1008-1019: new[i] = in[i] >> 16, on one sample
s32_to_s16(in) == LE(Signed(in) \div Pow2(16), 2)

\* the content of a buffer of which a stage read bytes that lie outside it:
\* it depends on what those bytes happened to be
Indeterminate == <<"indeterminate">>

\* what ch6_to_stereo makes of the bytes b it read inside the buffer: the
\* frames mixed by its matrix, kept as a term of b and not worked out
Downmix(b) == <<[downmix |-> b]>>

\* the content b after one stage st of the trace of a call
RECURSIVE StageData(_, _)
StageData(st, b) ==
    CASE st.stage = "copy" -> b
      [] st.stage = "fast_32_16" /\ st.sfmt.enc = "S16" ->
           IF b = <<>> THEN <<>>
           ELSE s32_to_s16(SubSeq(b, 1, 4)) \o StageData(st, SubSeq(b, 5, Len(b)))
      [] st.stage = "float_to_fixed" /\ st.sfmt.enc \in SampleEncodings ->
           IF b = <<>> THEN <<>>
           ELSE FloatToFixedSample(Head(b), st.sfmt.enc) \o StageData(st, Tail(b))
      [] st.stage = "ch6_to_stereo" -> IF b = <<>> THEN <<>> ELSE Downmix(b)

RECURSIVE TraceData(_, _)
TraceData(trace, b) ==
    IF trace = <<>> THEN b ELSE TraceData(Tail(trace), StageData(Head(trace), b))

\* the content of the buffer the call w returns for the input content in
SoundData(w, in) == IF w.oobr THEN Indeterminate ELSE TraceData(w.trace, in)

\* the two conversions whose samples are followed: 32 to 16 bit by the fast
\* path, and float 5.1 to 16 bit stereo
FastExample ==
    [from |-> [fmt |-> [enc |-> "S32", end |-> "LE"], rate |-> 48000, channels |-> 2],
     to |-> [fmt |-> [enc |-> "S16", end |-> "LE"], rate |-> 48000, channels |-> 2]]
MixExample ==
    [from |-> [fmt |-> [enc |-> "FLOAT", end |-> "LE"], rate |-> 44100, channels |-> 6],
     to |-> [fmt |-> [enc |-> "S16", end |-> "LE"], rate |-> 44100, channels |-> 2]]

\* the samples a caller passes: 32-bit words, or floats 0 and 0.5
InputSamples(fmt) ==
    IF fmt.enc = "FLOAT" THEN {<<0>>, <<Pow2(22)>>}
    ELSE {<<0, 0, 0, 127>>, <<0, 0, 0, 128>>, <<255, 255, 255, 127>>, <<1, 0, 255, 255>>}

RECURSIVE InputSounds(_, _)
InputSounds(fmt, samples) ==
    IF samples = 0 THEN {<<>>}
    ELSE {s \o t : s \in InputSamples(fmt), t \in InputSounds(fmt, samples - 1)}

\* audio_conv(conv, buf, size, &conv_len) on a buffer of given content
ConvertSound(F) ==
    /\ ConvertCall(F, 1)
    /\ \E in \in InputSounds(conv.from.fmt, cres'.n * conv.from.channels) :
         samp' = [op |-> "audio_conv", in |-> in,
                  out |-> IF cres'.st = "ok" THEN SoundData(cres'.w, in) ELSE <<>>]

(***************************************************************************)
(* change_sign on samples, lines 619-695.                                  *)
(***************************************************************************)
\* a variant that sets the top bit of the byte instead of flipping it
SetTop(byte) == IF byte < Pow2(7) THEN byte + Pow2(7) ELSE byte

\* "^= 1 << 7", "^= 1 << 15", "^= 1 << 23" and "^= 1 << 31" on the byte of
\* the sample that holds the bit
XorTop(byte) == (byte + Pow2(7)) % Pow2(8)

\* the first samples samples of buf, each width bytes with the bit to flip in
\* byte at, are flipped; what follows them in buf is left alone
FlipSamples(buf, samples, width, at) ==
    [i \in 1..Len(buf) |->
        IF i <= samples * width /\ (i - 1) % width = at - 1
        THEN XorTop(buf[i]) ELSE buf[i]]

change_sign_8(buf, samples) == FlipSamples(buf, samples, 1, 1)
change_sign_16(buf, samples) == FlipSamples(buf, samples, 2, 2)
change_sign_24(buf, samples) == FlipSamples(buf, samples, 4, 3)
change_sign_32(buf, samples) == FlipSamples(buf, samples, 4, 4)

\* the encodings change_sign has a case for
SignEncodings == {"S8", "U8", "S16", "U16", "S24", "U24", "S32", "U32"}

\* change_sign (buf, size, &fmt) on the bytes buf: the bytes and the tag after
ChangeSignBytes(buf, size, fmt) ==
    [fmt |-> sfmt_set_fmt(fmt, FlippedEnc(fmt.enc)),
     buf |-> CASE fmt.enc \in {"S8", "U8"} -> change_sign_8(buf, size)
               [] fmt.enc \in {"S16", "U16"} -> change_sign_16(buf, size \div 2)
               [] fmt.enc \in {"S24", "U24"} -> change_sign_24(buf, size \div 4)
               [] fmt.enc \in {"S32", "U32"} -> change_sign_32(buf, size \div 4)]

\* the buffers handed to change_sign: up to MaxSignBytes bytes
SignBuffers ==
    UNION {[1..n -> {0, 1, Pow2(7) - 1, Pow2(7), Pow2(8) - 1}] : n \in 0..MaxSignBytes}

\* change_sign is applied to a buffer, and then to the buffer it left
ChangeSign ==
    /\ \/ /\ samp.op = "none"
          /\ \E enc \in SignEncodings, buf \in SignBuffers :
               LET fmt == [enc |-> enc, end |-> SFMT_NE]
                   r == ChangeSignBytes(buf, Len(buf), fmt) IN
               samp' = [op |-> "change_sign", times |-> 1, in |-> buf, infmt |-> fmt,
                        once |-> r.buf, buf |-> r.buf, fmt |-> r.fmt]
       \/ /\ samp.op = "change_sign" /\ samp.times = 1
          /\ LET r == ChangeSignBytes(samp.buf, Len(samp.buf), samp.fmt) IN
             samp' = [samp EXCEPT !.times = 2, !.buf = r.buf, !.fmt = r.fmt]
    /\ UNCHANGED <<ndebug, opts, phase, conv, hist, bres, cres>>

(***************************************************************************)
(* swap_endian on samples, lines 697-751.                                  *)
(***************************************************************************)
\* audio_conv_bswap_16 (buf, num), lines 697-703: bswap_16 of num samples
audio_conv_bswap_16(buf, num) ==
    [i \in 1..Len(buf) |->
        IF i > 2 * num THEN buf[i]
        ELSE IF i % 2 = 1 THEN buf[i + 1] ELSE buf[i - 1]]

\* a variant that swaps the bytes of each half of the word only
audio_conv_bswap_32_halves(buf, num) == audio_conv_bswap_16(buf, 2 * num)

\* audio_conv_bswap_32 (buf, num), lines 717-723: bswap_32 of num samples
audio_conv_bswap_32(buf, num) ==
    [i \in 1..Len(buf) |->
        IF i > 4 * num THEN buf[i]
        ELSE CASE i % 4 = 1 -> buf[i + 3]
               [] i % 4 = 2 -> buf[i + 1]
               [] i % 4 = 3 -> buf[i - 1]
               [] i % 4 = 0 -> buf[i - 3]]

\* audio_conv_bswap_24 (buf, num), lines 705-715: num is the byte count, and
\* each pass of "for (i = 0; i < num; i += 3)" exchanges buf[i] and buf[i+2];
\* a last pass with i + 2 >= num works on bytes behind the buffer
audio_conv_bswap_24(buf, num) ==
    IF num % 3 # 0 THEN Indeterminate
    ELSE [i \in 1..Len(buf) |->
            IF i > num THEN buf[i]
            ELSE CASE i % 3 = 1 -> buf[i + 2]
                   [] i % 3 = 2 -> buf[i]
                   [] i % 3 = 0 -> buf[i - 2]]

\* swap_endian (buf, size, fmt) on the bytes buf
SwapEndianBytes(buf, size, fmt) ==
    CASE fmt.enc \in {"S8", "U8", "FLOAT"} -> buf
      [] fmt.enc \in {"S16", "U16"} -> audio_conv_bswap_16(buf, size \div 2)
      [] fmt.enc \in {"S24", "U24", "S32", "U32"} -> audio_conv_bswap_32(buf, size \div 4)
      [] fmt.enc \in {"S24_3", "U24_3"} -> audio_conv_bswap_24(buf, size)

\* the call works on bytes behind the buffer
SwapEndianPast(size, fmt) == fmt.enc \in {"S24_3", "U24_3"} /\ size % 3 # 0

\* the buffers handed to swap_endian: up to MaxSwapBytes bytes
SwapBuffers == UNION {[1..n -> {1, 2, 3}] : n \in 0..MaxSwapBytes}

\* swap_endian is applied to a buffer, and then to the buffer it left
SwapEndian ==
    /\ \/ /\ samp.op = "none"
          /\ \E fmt \in Formats, buf \in SwapBuffers :
               \E r \in {SwapEndianBytes(buf, Len(buf), fmt)} :
               samp' = [op |-> "swap_endian", times |-> 1, in |-> buf, fmt |-> fmt,
                        once |-> r, buf |-> r,
                        past |-> SwapEndianPast(Len(buf), fmt)]
       \/ /\ samp.op = "swap_endian" /\ samp.times = 1 /\ ~samp.past
          /\ samp' = [samp EXCEPT !.times = 2,
                         !.buf = SwapEndianBytes(samp.buf, Len(samp.buf), samp.fmt)]
    /\ UNCHANGED <<ndebug, opts, phase, conv, hist, bres, cres>>

(***************************************************************************)
(* mono_to_stereo on samples, lines 902-917.                               *)
(***************************************************************************)
\* a variant that leaves the right sample of the frame zero
StereoFrameLeftOnly(sample) == sample \o [i \in 1..Len(sample) |-> 0]

\* the two memcpy of lines 912-913: the sample goes to both halves of the frame
StereoFrame(sample) == sample \o sample

\* the loop "for (i = 0; i < size; i += Bps)" from byte i + 1 of mono on
RECURSIVE MonoLoop(_, _)
MonoLoop(mono, Bps) ==
    IF Len(mono) < Bps THEN <<>>
    ELSE StereoFrame(SubSeq(mono, 1, Bps)) \o MonoLoop(SubSeq(mono, Bps + 1, Len(mono)), Bps)

\* mono_to_stereo (mono, size, format) on the bytes mono: the new buffer, and
\* whether the last pass copied bytes from behind mono
MonoToStereoBytes(mono, size, format) ==
    [stereo |-> MonoLoop(mono, sfmt_Bps(format)),
     alloc |-> size * 2,
     past |-> size % sfmt_Bps(format) # 0]

\* mono_to_stereo is applied to a buffer
MonoToStereo ==
    /\ samp.op = "none"
    /\ \E format \in Formats, mono \in SwapBuffers :
         \E r \in {MonoToStereoBytes(mono, Len(mono), format)} :
         samp' = [op |-> "mono_to_stereo", in |-> mono, fmt |-> format,
                  out |-> r.stereo, alloc |-> r.alloc, past |-> r.past]
    /\ UNCHANGED <<ndebug, opts, phase, conv, hist, bres, cres>>

(***************************************************************************)
(* The fast-path reducers on one sample, lines 991-1084, and the tag each   *)
(* block of audio_conv gives their result, lines 1113-1211.  A 32-bit word  *)
(* is its four bytes, lowest first; an unsigned word is worked on as its    *)
(* high and its low half.                                                   *)
(***************************************************************************)
Hi16(in) == Unsigned(SubSeq(in, 3, 4))
Lo16(in) == Unsigned(SubSeq(in, 1, 2))

\* a variant that takes the low three bytes of the word
s32_to_s24_3_low(in) == SubSeq(in, 1, 3)

\* s32_to_s24_3, lines 991-1006: (in & 0xFF00) >> 8, (in & 0xFF0000) >> 16,
\* (in & 0xFF000000) >> 24; the masks make the shifted values unsigned
s32_to_s24_3(in) == <<Lo16(in) \div Pow2(8), Hi16(in) % Pow2(8), Hi16(in) \div Pow2(8)>>

\* u32_to_u16, lines 1021-1032: new[i] = in[i] >> 16 on a uint32_t
u32_to_u16(in) == LE(Hi16(in), 2)

\* s32_to_s24, lines 1034-1045: new[i] = in[i] >> 8 on an int32_t
s32_to_s24(in) == LE(Signed(in) \div Pow2(8), 4)

\* u32_to_u24, lines 1047-1058: new[i] = in[i] >> 8 on a uint32_t
u32_to_u24(in) == LE(Hi16(in) * Pow2(8) + (Lo16(in) \div Pow2(8)), 4)

\* s24_to_s16, lines 1060-1071: new[i] = in[i] >> 8, stored in an int16_t
s24_to_s16(in) == LE(Signed(in) \div Pow2(8), 2)

\* u24_to_u16, lines 1073-1084: new[i] = in[i] >> 8, stored in a uint16_t
u24_to_u16(in) == LE(Hi16(in) * Pow2(8) + (Lo16(in) \div Pow2(8)), 2)

\* the block of audio_conv that is taken for the current encoding cur and the
\* target encoding to at equal rates, on one sample: the bytes and the tag
FastPathSample(cur, to, in) ==
    CASE cur \in {"S32", "U32"} /\ to \in {"S24_3", "U24_3"} ->
           [out |-> s32_to_s24_3(in),
            enc |-> IF cur = "S32" THEN "S24_3" ELSE "U24_3"]
      [] cur \in {"S32", "U32"} /\ to \in {"S16", "U16"} ->
           IF cur = "S32" THEN [out |-> s32_to_s16(in), enc |-> "S16"]
           ELSE [out |-> u32_to_u16(in), enc |-> "U16"]
      [] cur \in {"S32", "U32"} /\ to \in {"S24", "U24"} ->
           IF cur = "S32" THEN [out |-> s32_to_s24(in), enc |-> "S24"]
           ELSE [out |-> u32_to_u24(in), enc |-> "U24"]
      [] cur \in {"S24", "U24"} /\ to \in {"S16", "U16"} ->
           IF cur = "S24" THEN [out |-> s24_to_s16(in), enc |-> "S16"]
           ELSE [out |-> u24_to_u16(in), enc |-> "U16"]

\* the pairs of current and target encoding with a fast path
FastPairs ==
    ({"S32", "U32"} \X {"S24_3", "U24_3", "S16", "U16", "S24", "U24"})
        \cup ({"S24", "U24"} \X {"S16", "U16"})

\* the words given to the reducers: the bytes 00, 01, 7F, 80, FF in every
\* place of a 32-bit word; a 24-bit sample is held in a word, sign-extended
\* if signed and with a zero top byte if not
ReducerBytes == {0, 1, Pow2(7) - 1, Pow2(7), Pow2(8) - 1}
ReducerInputs(cur) ==
    CASE cur \in {"S32", "U32"} -> [1..4 -> ReducerBytes]
      [] cur = "S24" ->
           {b \o <<IF b[3] >= Pow2(7) THEN Pow2(8) - 1 ELSE 0>> : b \in [1..3 -> ReducerBytes]}
      [] cur = "U24" -> {b \o <<0>> : b \in [1..3 -> ReducerBytes]}

\* a fast path of audio_conv is applied to one sample
FastReduce ==
    /\ samp.op = "none"
    /\ \E p \in FastPairs :
         \E in \in ReducerInputs(p[1]) :
         \E r \in {FastPathSample(p[1], p[2], in)} :
         samp' = [op |-> "reduce", cur |-> p[1], to |-> p[2], in |-> in,
                  out |-> r.out, enc |-> r.enc]
    /\ UNCHANGED <<ndebug, opts, phase, conv, hist, bres, cres>>

(***************************************************************************)
(* The accumulation of ch6_to_stereo on one frame, lines 930-982.  The      *)
(* coefficients are counted in units of 10^-4 and a product of a sample and *)
(* two coefficients is the real number int + frac / 10^8.  The float        *)
(* arithmetic of the code is within Ch6Slack of the real one, so the        *)
(* accumulator is known to lie between a lower and an upper value.          *)
(***************************************************************************)
Myriad == 10000
Ch6Normalization == 2626

\* a variant with the centre and the LFE channel at full weight
Ch6MatrixFullCentre ==
    << <<10000, 0, 10000, 10000, -8165, -5774>>,
       <<0, 10000, 10000, 10000, 5774, 8165>> >>

\* float a[2][6], lines 930-932
Ch6Matrix ==
    << <<10000, 0, 7070, 7070, -8165, -5774>>,
       <<0, 10000, 7070, 7070, 5774, 8165>> >>

\* a[j][k] * normalization, in units of 10^-8
Ch6Coefficient(j, k) == Ch6Matrix[j][k] * Ch6Normalization

\* |n| = MagHi(n) * 10^4 + MagLo(n), for n down to INT32_MIN
MagHi(n) ==
    IF n >= 0 THEN n \div Myriad
    ELSE IF n % Myriad = 0 THEN 0 - (n \div Myriad)
    ELSE 0 - (n \div Myriad) - 1
MagLo(n) == IF n >= 0 THEN n % Myriad ELSE (Myriad - (n % Myriad)) % Myriad

\* |in| * |c| / 10^8
MagProduct(in, c) ==
    LET hi == MagHi(in)
        lo == MagLo(in)
        c1 == Abs(c) \div Myriad
        c0 == Abs(c) % Myriad
        m == (hi * c0) + (lo * c1)
        low == ((m % Myriad) * Myriad) + (lo * c0)
    IN  [int |-> (hi * c1) + (m \div Myriad) + (low \div (Myriad * Myriad)),
         frac |-> low % (Myriad * Myriad)]

\* a[j][k] * sample_in[k] * normalization: int is the floor of the product
Ch6Term(in, c) ==
    LET p == MagProduct(in, c) IN
    IF (in < 0) = (c < 0) \/ (p.int = 0 /\ p.frac = 0) THEN p
    ELSE IF p.frac = 0 THEN [int |-> 0 - p.int, frac |-> 0]
    ELSE [int |-> 0 - p.int - 1, frac |-> (Myriad * Myriad) - p.frac]

\* how far the float sum of the accumulator and a product is from the real
\* one at most: 0.01 for 16-bit samples; 512 for 32-bit ones, where a float
\* holds the accumulator to 128 only; nothing if the coefficient is 0
Ch6Slack(enc, c) ==
    IF c = 0 THEN [int |-> 0, frac |-> 0]
    ELSE IF enc = "S16" THEN [int |-> 0, frac |-> 100 * Myriad]
    ELSE [int |-> 512, frac |-> 0]

\* the range of int16_t and int32_t sample_out[j]
Ch6Max(enc) == IF enc = "S16" THEN Pow2(15) - 1 ELSE INT32_MAX
Ch6Min(enc) == IF enc = "S16" THEN 0 - Pow2(15) ELSE INT32_MIN

\* the conversion of a float to an integer drops the fraction
TruncZ(x) == IF x.int >= 0 \/ x.frac = 0 THEN x.int ELSE x.int + 1

\* "sample_out[j] += a[j][k] * sample_in[k] * normalization" on an accumulator
\* known to be in acc.lo .. acc.hi; over: the sum can be out of the range of
\* the sample type, which the conversion back to it does not define
Ch6Add(acc, t, s, enc) ==
    IF acc.over THEN acc
    ELSE IF t.int >= 0 /\ acc.hi >= 0 /\ t.int + s.int + 1 > INT32_MAX - acc.hi
    THEN [acc EXCEPT !.over = TRUE]
    ELSE IF t.int < 0 /\ acc.lo < 0 /\ t.int - s.int - 1 < INT32_MIN - acc.lo
    THEN [acc EXCEPT !.over = TRUE]
    ELSE LET up == t.frac + s.frac
             dn == t.frac - s.frac
             hi == TruncZ([int |-> acc.hi + t.int + s.int + (up \div (Myriad * Myriad)),
                           frac |-> up % (Myriad * Myriad)])
             lo == TruncZ([int |-> acc.lo + t.int - s.int + (dn \div (Myriad * Myriad)),
                           frac |-> dn % (Myriad * Myriad)])
         IN  [lo |-> lo, hi |-> hi, over |-> hi > Ch6Max(enc) \/ lo < Ch6Min(enc)]

\* the loop over k of lines 946-947 and 978-979 from channel k on
RECURSIVE Ch6Row(_, _, _, _, _)
Ch6Row(acc, in, j, k, enc) ==
    IF k > 6 THEN acc
    ELSE Ch6Row(Ch6Add(acc, Ch6Term(in[k], Ch6Coefficient(j, k)),
                       Ch6Slack(enc, Ch6Coefficient(j, k)), enc),
                in, j, k + 1, enc)

\* sample_out[0] and sample_out[1] of one frame
Ch6FrameOut(in, enc) ==
    [j \in 1..2 |-> Ch6Row([lo |-> 0, hi |-> 0, over |-> FALSE], in, j, 1, enc)]

\* the samples of a frame: both ends of the range, 0 and its neighbours
Ch6Inputs(enc) == {Ch6Min(enc), 0 - 1, 0, 1, Ch6Max(enc)}

\* ch6_to_stereo mixes one frame of S16 or S32 samples
Ch6Frame ==
    /\ samp.op = "none"
    /\ \E enc \in {"S16", "S32"} :
         \E in \in [1..6 -> Ch6Inputs(enc)] :
         samp' = [op |-> "ch6_frame", enc |-> enc, in |-> in,
                  out |-> Ch6FrameOut(in, enc)]
    /\ UNCHANGED <<ndebug, opts, phase, conv, hist, bres, cres>>

(***************************************************************************)
(* find_rating, ratings.c lines 44-148.  The ratings file is the sequence   *)
(* of its characters.  The chunk in buf is always the part of the file that *)
(* ends where the stream stands, so the position s in the chunk is kept as  *)
(* rd, the offset of the stream, less n, the characters left in the chunk.  *)
(***************************************************************************)
\* the chunk size (8 * 1024 in line 37), scaled down to the files below
BUF_SIZE == 4
\* the lines of a ratings file
MaxLines == 3

EOF == "EOF"
RatingChars == {"0", "1", "2", "3", "4", "5"}
\* c0 - '0'
RatingOf(c) ==
    CASE c = "0" -> 0 [] c = "1" -> 1 [] c = "2" -> 2
      [] c = "3" -> 3 [] c = "4" -> 4 [] c = "5" -> 5

\* lines 48-51: nothing read yet; filepos is the caller's variable, not set
RatingStart == [rd |-> 0, n |-> 0, fpos |-> 0, filepos |-> 0 - 1]

\* n = fread (buf, 1, BUF_SIZE, rf); s = buf;
Fread(f, st) ==
    LET k == Min(BUF_SIZE, Len(f) - st.rd) IN [st EXCEPT !.rd = @ + k, !.n = k]

\* the macro GETC, lines 55-63: the next character, or EOF
GETC(f, st) ==
    IF st.n = 0
    THEN LET r == Fread(f, st) IN
         IF r.n = 0 THEN [c |-> EOF, st |-> r]
         ELSE [c |-> f[st.rd + 1],
               st |-> [r EXCEPT !.n = @ - 1, !.fpos = @ + r.n]]
    ELSE [c |-> f[st.rd - st.n + 1], st |-> [st EXCEPT !.n = @ - 1]]

\* return -1
NotFound(st) == [ret |-> 0 - 1, filepos |-> st.filepos]

RECURSIVE ReadLines(_, _, _, _)
RECURSIVE SkipLine(_, _, _, _)
RECURSIVE MatchName(_, _, _, _, _, _)

\* lines 130-145: skip to the next line
SkipLine(f, fn, want, st) ==
    LET nl == {i \in (st.rd - st.n + 1)..st.rd : f[i] = "\n"} IN
    IF nl # {}
    THEN LET e == CHOOSE i \in nl : \A j \in nl : i <= j IN
         ReadLines(f, fn, want, [st EXCEPT !.n = st.rd - e])
    ELSE LET r == Fread(f, st) IN
         IF r.n = 0 THEN NotFound(st) ELSE SkipLine(f, fn, want, r)

\* lines 85-126: compare the rest of the line with the nleft characters of fn
\* not yet matched
MatchName(f, fn, want, st, nleft, c0) ==
    LET ncmp == Min(nleft, st.n)
        s == st.rd - st.n
        t == Len(fn) - nleft
    IN
    IF SubSeq(f, s + 1, s + ncmp) # SubSeq(fn, t + 1, t + ncmp)
    THEN SkipLine(f, fn, want, st)
    ELSE LET a == [st EXCEPT !.n = @ - ncmp]
             left == nleft - ncmp
         IN
         IF left = 0
         THEN LET b == IF want
                       THEN [a EXCEPT !.filepos = a.fpos - a.n - Len(fn) - 2]
                       ELSE a
                  g == GETC(f, b)
              IN  IF g.c # EOF /\ g.c # "\n" THEN SkipLine(f, fn, want, g.st)
                  ELSE [ret |-> RatingOf(c0), filepos |-> b.filepos]
         ELSE IF a.n = 0
         THEN LET r == Fread(f, a) IN
              IF r.n = 0 THEN NotFound(a) ELSE MatchName(f, fn, want, r, left, c0)
         ELSE MatchName(f, fn, want, a, left, c0)

\* lines 66-146: the loop over the lines of the file
ReadLines(f, fn, want, st) ==
    LET g0 == GETC(f, st) IN
    IF g0.c = EOF THEN NotFound(g0.st)
    ELSE IF g0.c = "\n" THEN ReadLines(f, fn, want, g0.st)
    ELSE IF g0.c \in RatingChars
    THEN LET g1 == GETC(f, g0.st) IN
         IF g1.c = EOF THEN NotFound(g1.st)
         ELSE IF g1.c = "\n" THEN ReadLines(f, fn, want, g1.st)
         ELSE IF g1.c = " " THEN MatchName(f, fn, want, g1.st, Len(fn), g0.c)
         ELSE SkipLine(f, fn, want, g1.st)
    ELSE SkipLine(f, fn, want, g0.st)

\* find_rating (fn, rf, filepos) on a freshly opened file f; want: filepos is
\* not NULL
find_rating(fn, f, want) == ReadLines(f, fn, want, RatingStart)

\* the lines ratings files are made of, and the names looked up
RatingLines ==
    { <<"3", " ", "a", "\n">>, <<"4", " ", "a", "b", "\n">>, <<"b", "\n">>,
      <<"\n">>, <<"5", " ", "a", " ", "\n">>, <<"2", " ", "a">>, <<"1", "\n">> }
RatingNames == { <<"a">>, <<"a", "b">> }
RECURSIVE RatingFiles(_)
RatingFiles(lines) ==
    IF lines = 0 THEN {<<>>}
    ELSE LET shorter == RatingFiles(lines - 1) IN
         shorter \cup {l \o f : l \in RatingLines, f \in shorter}

\* find_rating is called on a ratings file
FindRating ==
    /\ samp.op = "none"
    /\ \E f \in RatingFiles(MaxLines), fn \in RatingNames, want \in BOOLEAN :
         \E r \in {find_rating(fn, f, want)} :
         samp' = [op |-> "find_rating", file |-> f, fn |-> fn, want |-> want,
                  ret |-> r.ret, filepos |-> r.filepos]
    /\ UNCHANGED <<ndebug, opts, phase, conv, hist, bres, cres>>

(***************************************************************************)
(* ratings_write_file, ratings.c lines 271-320, and ratings_read_file,     *)
(* lines 222-247.  A ratings file is [exists, data]: whether                *)
(* open_ratings_file finds it, and its characters.                         *)
(***************************************************************************)
\* '0' + rating
RatingChar(r) ==
    CASE r = 0 -> "0" [] r = 1 -> "1" [] r = 2 -> "2"
      [] r = 3 -> "3" [] r = 4 -> "4" [] r = 5 -> "5"

\* fprintf (rf, "%d %s\n", rating, fn) at the end of the file
AppendRating(data, fn, rating) == data \o <<RatingChar(rating), " ">> \o fn \o <<"\n">>

\* lines 304-307: not found - append, if the rating is not 0
AppendIfRated(data, fn, rating) ==
    IF rating > 0 THEN AppendRating(data, fn, rating) ELSE data

\* lines 313-316: fseek (rf, filepos, SEEK_SET), which fails for a negative
\* offset, then fputc ('0' + rating, rf)
UpdateRating(data, filepos, rating) ==
    IF filepos < 0 THEN data
    ELSE IF filepos < Len(data) THEN [data EXCEPT ![filepos + 1] = RatingChar(rating)]
    ELSE data \o [i \in 1..(filepos - Len(data)) |-> "NUL"] \o <<RatingChar(rating)>>

\* the call on ratings file rf; created: the file could be created when it
\* did not exist
ratings_write_file(fn, rating, rf, created) ==
    IF ~rf.exists
    THEN IF rating <= 0 THEN [ret |-> 1, rf |-> rf]
         ELSE IF ~created THEN [ret |-> 0, rf |-> rf]
         ELSE [ret |-> 1, rf |-> [exists |-> TRUE, data |-> AppendRating(<<>>, fn, rating)]]
    ELSE LET r == find_rating(fn, rf.data, TRUE) IN
         IF r.ret < 0
         THEN [ret |-> 1, rf |-> [rf EXCEPT !.data = AppendIfRated(@, fn, rating)]]
         ELSE IF r.ret # rating
         THEN [ret |-> 1, rf |-> [rf EXCEPT !.data = UpdateRating(@, r.filepos, rating)]]
         ELSE [ret |-> 1, rf |-> rf]

\* the rating ratings_read_file stores for fn
ratings_read_file(fn, rf) ==
    IF rf.exists
    THEN LET r == find_rating(fn, rf.data, FALSE) IN IF r.ret < 0 THEN 0 ELSE r.ret
    ELSE 0

\* the ratings files of the model: none, or one of up to MaxLines lines
RatingStores ==
    {[exists |-> FALSE, data |-> <<>>]}
      \cup {[exists |-> TRUE, data |-> f] : f \in RatingFiles(MaxLines)}

\* ratings_write_file is called on a ratings file
WriteRating ==
    /\ samp.op = "none"
    /\ \E rf \in RatingStores, fn \in RatingNames, rating \in 0..5, created \in BOOLEAN :
         \E w \in {ratings_write_file(fn, rating, rf, created)} :
         samp' = [op |-> "ratings_write_file", before |-> rf, fn |-> fn,
                  rating |-> rating, ret |-> w.ret, after |-> w.rf]
    /\ UNCHANGED <<ndebug, opts, phase, conv, hist, bres, cres>>

(***************************************************************************)
(* The MPRIS thread, mpris.c.  Two revisions of the file are modelled:     *)
(* version 1 is MPRIS 1.0 (mpris_thread at lines 1759-1829 of the first    *)
(* listing), version 2 is MPRIS 2 (mpris_thread at lines 761-847 of the    *)
(* second).  An incoming message is a record: its interface, member and    *)
(* path and, for the Properties interface, the interface and key it names, *)
(* whether Set finds its three arguments, and the type and value of the    *)
(* variant.  A handler yields the messages it sends on the connection.     *)
(***************************************************************************)
MPRIS_IFACE_ROOT == "org.mpris.MediaPlayer2"
MPRIS_IFACE_PLAYER == "org.mpris.MediaPlayer2.Player"
INTROSPECTION_IFACE == "org.freedesktop.DBus.Introspectable"
PROPERTIES_IFACE == "org.freedesktop.DBus.Properties"
NoArg == "-"

RootKeys ==
    {"Identity", "CanQuit", "CanRaise", "HasTrackList", "SupportedUriSchemes",
     "SupportedMimeTypes", "DesktopEntry"}
PlayerKeys ==
    {"Rate", "MinimumRate", "MaximumRate", "Volume", "Position", "CanGoNext",
     "CanGoPrevious", "CanPlay", "CanPause", "CanSeek", "CanControl",
     "LoopStatus", "Shuffle", "PlaybackStatus", "Metadata"}

\* dbus_message_new_error (msg, name, ...); dbus_connection_send (dbus_conn, msg_error, NULL)
SendError(name) == <<[type |-> "error", name |-> name]>>
SendNothing == <<>>

\* lines 515-540
mpris_properties_get_root(key) ==
    IF key \in RootKeys THEN SendNothing ELSE SendError("UnknownProperty")

\* lines 586-625
mpris_properties_get_player(key) ==
    IF key \in PlayerKeys THEN SendNothing ELSE SendError("UnknownProperty")

\* lines 627-672: the type codes are 'd', 's' and 'b'
mpris_properties_set_player(key, type, value) ==
    CASE key = "Rate" ->
           IF type # "d" \/ value # "1" THEN SendError("InvalidArgs") ELSE SendNothing
      [] key = "LoopStatus" ->
           IF type = "s" /\ value \notin {"None", "Track", "Playlist"}
           THEN SendError("InvalidArgs") ELSE SendNothing
      [] key = "Shuffle" ->
           IF type # "b" THEN SendError("InvalidArgs") ELSE SendNothing
      [] key = "Volume" ->
           IF type # "d" THEN SendError("InvalidArgs") ELSE SendNothing
      [] OTHER -> SendNothing

\* lines 674-760
mpris_properties(m) ==
    CASE m.member = "GetAll" ->
           IF m.piface \in {MPRIS_IFACE_ROOT, MPRIS_IFACE_PLAYER} THEN SendNothing
           ELSE SendError("UnknownInterface")
      [] m.member = "Get" ->
           IF m.piface = MPRIS_IFACE_ROOT THEN mpris_properties_get_root(m.key)
           ELSE IF m.piface = MPRIS_IFACE_PLAYER THEN mpris_properties_get_player(m.key)
           ELSE SendError("UnknownInterface")
      [] m.member = "Set" ->
           IF ~m.argsok THEN SendError("InvalidArgs")
           ELSE IF m.piface = MPRIS_IFACE_ROOT THEN SendError("UnknownProperty")
           ELSE IF m.piface = MPRIS_IFACE_PLAYER
           THEN mpris_properties_set_player(m.key, m.type, m.value)
           ELSE SendError("UnknownInterface")
      [] OTHER -> SendError("UnknownMethod")

\* mpris_root_methods: whether the message sets server_quit (line 392 of the
\* MPRIS 2 file, line 1615 of the MPRIS 1.0 file)
mpris_root_methods(version, m) ==
    IF version = 2
    THEN m.iface = MPRIS_IFACE_ROOT /\ m.member = "Quit"
    ELSE m.path = "/" /\ m.member = "Quit"

\* what the handlers send while the reply is prepared: MPRIS 2 lines 822-834;
\* the handlers of MPRIS 1.0, dispatched on the path, send nothing themselves
HandlerSends(version, m) ==
    IF version = 2 /\ m.iface = PROPERTIES_IFACE THEN mpris_properties(m)
    ELSE SendNothing

\* reply = dbus_message_new_method_return (msg), sent at line 837 (1820)
MethodReturn == <<[type |-> "method_return", name |-> NoArg]>>

\* everything sent on the connection for one popped message
Responses(version, m) == HandlerSends(version, m) \o MethodReturn

\* the messages of the model
PlainMessage(iface, path, member) ==
    [iface |-> iface, path |-> path, member |-> member, piface |-> NoArg,
     key |-> NoArg, argsok |-> TRUE, type |-> NoArg, value |-> NoArg]
PropertyIfaces == {MPRIS_IFACE_ROOT, MPRIS_IFACE_PLAYER, "org.example.Other"}
PropertyMessages ==
    {[PlainMessage(PROPERTIES_IFACE, NoArg, mb) EXCEPT !.piface = pi, !.key = k]
       : mb \in {"GetAll", "Get", "Frob"}, pi \in PropertyIfaces,
         k \in RootKeys \cup PlayerKeys \cup {"Bogus"}}
      \cup {[PlainMessage(PROPERTIES_IFACE, NoArg, "Set") EXCEPT
               !.piface = pi, !.key = k, !.argsok = ok, !.type = t, !.value = v]
              : pi \in PropertyIfaces,
                k \in {"Rate", "LoopStatus", "Shuffle", "Volume", "Bogus"},
                ok \in BOOLEAN, t \in {"d", "s", "b"},
                v \in {"1", "2", "None", "Track", "Playlist", "Junk"}}
MethodMessages ==
    {PlainMessage(i, NoArg, mb)
       : i \in {MPRIS_IFACE_ROOT, MPRIS_IFACE_PLAYER, INTROSPECTION_IFACE,
                "org.example.Other", NoArg},
         mb \in {"Quit", "Raise", "Next", "Introspect"}}
PathMessages ==
    {PlainMessage(NoArg, p, mb)
       : p \in {"/", "/Player", "/TrackList", "/Other"},
         mb \in {"Quit", "Identity", "Next", "GetLength"}}
Messages(version) ==
    IF version = 2 THEN PropertyMessages \cup MethodMessages ELSE PathMessages

\* the hooks of the two revisions (lines 1831-1858; lines 849-886) and the
\* flags the thread tests, in its order (lines 1778-1795; lines 783-804, where
\* the tests of mpris_tracklist_changed and mpris_caps_changed are commented out)
AllHooks == {"tracklist", "track", "status", "caps", "seeked"}
Hooks(version) == IF version = 2 THEN AllHooks ELSE AllHooks \ {"seeked"}
SignalOrder(version) ==
    IF version = 2 THEN <<"track", "status", "seeked">>
    ELSE <<"tracklist", "track", "caps", "status">>

\* a variant with one flag word for all the notifications
ClearedAll(flag, h) == [g \in AllHooks |-> FALSE]

\* mpris_track_changed = 0 and the like
ClearedFlag(flag, h) == [flag EXCEPT ![h] = FALSE]

NoMessage == PlainMessage(NoArg, NoArg, NoArg)

\* mpris_thread is started; conn: dbus_conn is not NULL
MprisStart(V) ==
    /\ samp.op = "none"
    /\ \E version \in V, conn \in BOOLEAN :
         samp' = [op |-> "mpris", version |-> version,
                  pc |-> IF conn THEN "read_write" ELSE "done", i |-> 1,
                  mutex |-> "free", hstep |-> "set",
                  flag |-> [h \in AllHooks |-> FALSE],
                  pending |-> [h \in AllHooks |-> FALSE],
                  quit |-> FALSE, msg |-> NoMessage, sent |-> <<>>]
    /\ UNCHANGED <<ndebug, opts, phase, conv, hist, bres, cres>>

MprisStep(s) ==
    /\ samp.op = "mpris"
    /\ samp' = s
    /\ UNCHANGED <<ndebug, opts, phase, conv, hist, bres, cres>>

\* while (dbus_connection_read_write (dbus_conn, MPRIS_TIMEOUT)); if (server_quit) return
ReadWrite ==
    /\ samp.op = "mpris" /\ samp.pc = "read_write"
    /\ \E alive \in BOOLEAN :
         MprisStep([samp EXCEPT !.pc = IF alive /\ ~samp.quit THEN "lock" ELSE "done",
                                !.msg = NoMessage, !.sent = <<>>])

\* LOCK (mpris_mutex)
ThreadLock ==
    /\ samp.op = "mpris" /\ samp.pc = "lock" /\ samp.mutex = "free"
    /\ MprisStep([samp EXCEPT !.mutex = "mpris", !.pc = "signals", !.i = 1])

\* if (mpris_x_changed) mpris_x_change_signal ();
EmitSignal ==
    /\ samp.op = "mpris" /\ samp.pc = "signals"
    /\ samp.i <= Len(SignalOrder(samp.version))
    /\ samp.flag[SignalOrder(samp.version)[samp.i]]
    /\ MprisStep([samp EXCEPT !.pending[SignalOrder(samp.version)[samp.i]] = FALSE,
                              !.pc = "clear"])

\* the flag is not set
SkipSignal ==
    /\ samp.op = "mpris" /\ samp.pc = "signals"
    /\ samp.i <= Len(SignalOrder(samp.version))
    /\ ~samp.flag[SignalOrder(samp.version)[samp.i]]
    /\ MprisStep([samp EXCEPT !.i = @ + 1])

\* mpris_x_changed = 0;
ClearFlag ==
    /\ samp.op = "mpris" /\ samp.pc = "clear"
    /\ MprisStep([samp EXCEPT
                    !.flag = ClearedFlag(@, SignalOrder(samp.version)[samp.i]),
                    !.pc = "signals", !.i = @ + 1])

\* UNLOCK (mpris_mutex)
ThreadUnlock ==
    /\ samp.op = "mpris" /\ samp.pc = "signals"
    /\ samp.i > Len(SignalOrder(samp.version))
    /\ MprisStep([samp EXCEPT !.mutex = "free", !.pc = "pop"])

\* msg = dbus_connection_pop_message (dbus_conn); if (msg == NULL) continue;
\* otherwise the message is handled and the reply is sent
PopMessage(MS) ==
    /\ samp.op = "mpris" /\ samp.pc = "pop"
    /\ \/ MprisStep([samp EXCEPT !.pc = "read_write"])
       \/ \E m \in Messages(samp.version) \cap MS :
            MprisStep([samp EXCEPT
                         !.pc = "read_write", !.msg = m,
                         !.sent = Responses(samp.version, m),
                         !.quit = @ \/ mpris_root_methods(samp.version, m)])

\* a hook is called in a thread of the server: LOCK (mpris_mutex)
HookLock(H) ==
    /\ samp.op = "mpris" /\ samp.mutex = "free"
    /\ \E h \in Hooks(samp.version) \cap H :
         MprisStep([samp EXCEPT !.mutex = h, !.hstep = "set"])

\* mpris_x_changed = 1; from here on the notification is pending
HookSet ==
    /\ samp.op = "mpris" /\ samp.mutex \in AllHooks /\ samp.hstep = "set"
    /\ MprisStep([samp EXCEPT !.flag[samp.mutex] = TRUE,
                              !.pending[samp.mutex] = TRUE, !.hstep = "unlock"])

\* UNLOCK (mpris_mutex)
HookUnlock ==
    /\ samp.op = "mpris" /\ samp.mutex \in AllHooks /\ samp.hstep = "unlock"
    /\ MprisStep([samp EXCEPT !.mutex = "free", !.hstep = "set"])

\* the steps of the MPRIS thread but for the lock
ThreadSteps(MS) ==
    \/ ReadWrite
    \/ EmitSignal
    \/ SkipSignal
    \/ ClearFlag
    \/ ThreadUnlock
    \/ PopMessage(MS)

(***************************************************************************)
(* The PulseAudio backend, pulse.c.  stream is the global stream, NULL or  *)
(* 1; lock is the thread that holds the lock of the threaded mainloop.     *)
(* The threads are those of the header comment (lines 942-966): the        *)
(* playing thread opens and closes, the output buffer thread plays, and    *)
(* the main server thread handles the mixer.  A function runs from its     *)
(* pa_threaded_mainloop_lock to its unlock or to its next                  *)
(* pa_threaded_mainloop_wait in one step: nothing else touches stream      *)
(* while the lock is held.  woke says the function was in its wait.        *)
(***************************************************************************)
PulseThreads == {"playing", "output buffer", "server"}
ThreadFns(t) ==
    CASE t = "playing" -> {"open", "close"}
      [] t = "output buffer" -> {"play", "reset", "get_buff_fill", "get_rate"}
      [] t = "server" -> {"read_mixer", "set_mixer", "toggle_mixer_channel",
                          "get_mixer_channel_name"}

\* the function hands stream to a call of the library in this part of it
PassesStream(fn, stream, showing, woke) ==
    CASE fn = "open" -> FALSE
      [] fn = "close" -> TRUE
      [] fn = "play" -> stream # NULL
      [] fn = "reset" -> ~woke /\ stream # NULL
      [] fn = "get_rate" -> stream # NULL
      [] fn = "get_buff_fill" -> stream # NULL
      [] fn = "read_mixer" -> ~woke /\ stream # NULL
      [] fn = "set_mixer" -> stream # NULL
      [] fn = "get_mixer_channel_name" -> ~woke /\ showing /\ stream # NULL

\* the values the function may leave in stream
StreamAfter(fn, stream) ==
    CASE fn = "open" -> {stream, 1}
      [] fn = "close" -> {NULL}
      [] OTHER -> {stream}

\* the function may reach pa_threaded_mainloop_wait in this part of it
MayWait(fn, stream, showing, woke) ==
    CASE fn = "open" -> TRUE
      [] fn = "play" -> stream # NULL
      [] fn = "reset" -> woke \/ stream # NULL
      [] fn = "read_mixer" -> woke \/ showing \/ stream # NULL
      [] fn = "get_mixer_channel_name" -> woke \/ showing
      [] OTHER -> FALSE

PulseIdle == [fn |-> NoArg, at |-> "idle", woke |-> FALSE]

\* after pulse_init: no stream, nobody in the backend
PulseStart ==
    /\ samp.op = "none"
    /\ samp' = [op |-> "pulse", stream |-> NULL, lock |-> "free", showing |-> TRUE,
                st |-> "run", fault |-> NoArg,
                pc |-> [t \in PulseThreads |-> PulseIdle]]
    /\ UNCHANGED <<ndebug, opts, phase, conv, hist, bres, cres>>

PulseStep(s) ==
    /\ samp' = s
    /\ UNCHANGED <<ndebug, opts, phase, conv, hist, bres, cres>>

\* a thread calls a function of the backend, up to its
\* pa_threaded_mainloop_lock; pulse_open asserts !stream before (line 1145),
\* pulse_toggle_mixer_channel takes no lock (lines 1528-1531)
PulseCall ==
    /\ samp.op = "pulse" /\ samp.st = "run"
    /\ \E t \in PulseThreads :
         /\ samp.pc[t].at = "idle"
         /\ \E fn \in ThreadFns(t) :
              PulseStep(
                IF fn = "toggle_mixer_channel"
                THEN [samp EXCEPT !.showing = ~@]
                ELSE IF fn = "open" /\ samp.stream # NULL /\ ~ndebug
                THEN [samp EXCEPT !.st = "abort"]
                ELSE [samp EXCEPT !.pc[t] = [fn |-> fn, at |-> "lock", woke |-> FALSE]])

\* pa_threaded_mainloop_lock returns, also inside pa_threaded_mainloop_wait
PulseLock ==
    /\ samp.op = "pulse" /\ samp.st = "run" /\ samp.lock = "free"
    /\ \E t \in PulseThreads :
         /\ samp.pc[t].at = "lock"
         /\ PulseStep([samp EXCEPT !.lock = t, !.pc[t].at = "held"])

\* the function runs with the lock held, to its unlock or to its wait
PulseRun ==
    /\ samp.op = "pulse" /\ samp.st = "run"
    /\ \E t \in PulseThreads :
         /\ samp.pc[t].at = "held"
         /\ \E p \in {samp.pc[t]} :
              IF PassesStream(p.fn, samp.stream, samp.showing, p.woke) /\ samp.stream = NULL
              THEN PulseStep([samp EXCEPT !.st = "crash", !.fault = p.fn])
              ELSE \E s \in StreamAfter(p.fn, samp.stream),
                      wait \in {w \in BOOLEAN :
                                  w => MayWait(p.fn, samp.stream, samp.showing, p.woke)} :
                     /\ wait => s = samp.stream
                     /\ PulseStep([samp EXCEPT
                                     !.stream = s, !.lock = "free",
                                     !.pc[t] = IF wait
                                               THEN [p EXCEPT !.at = "wait", !.woke = TRUE]
                                               ELSE PulseIdle])

\* pa_threaded_mainloop_signal from a callback: the waiting thread goes for
\* the lock again
PulseSignal ==
    /\ samp.op = "pulse" /\ samp.st = "run"
    /\ \E t \in PulseThreads :
         /\ samp.pc[t].at = "wait"
         /\ PulseStep([samp EXCEPT !.pc[t].at = "lock"])

Init ==
    /\ ndebug \in BOOLEAN
    /\ opts = DefaultOpts
    /\ phase = "none"
    /\ conv = NoConv
    /\ hist = NoHist
    /\ bres = NoBuild
    /\ cres = NoCall
    /\ samp = NoSamples

Next ==
    \/ Build(FromParams, ToParams)
    \/ Convert(MaxFrames, 1)

Spec == Init /\ [][Next]_vars

NextRs ==
    \/ Build(RsParams, RsParams)
    \/ Convert(MaxFramesRs, MaxCallsRs)
    \/ Destroy

SpecRs == Init /\ [][NextRs]_vars

NextZita ==
    \/ Build(RsParams, RsParams)
    \/ ZitaResample(MaxFramesRs, MaxCallsRs)

SpecZita == Init /\ [][NextZita]_vars

NextOpt ==
    \/ SetOption
    \/ Build(OptParams, OptParams)
    \/ Convert(MaxFrames, 1)
    \/ Destroy

SpecOpt == Init /\ [][NextOpt]_vars

NextSamples ==
    \/ FloatToFixed
    \/ FixedToFloat

SpecSamples == Init /\ [][NextSamples]_vars

NextSound ==
    \/ Build({FastExample.from}, {FastExample.to})
    \/ Build({MixExample.from}, {MixExample.to})
    \/ ConvertSound(MaxFramesSound)

SpecSound == Init /\ [][NextSound]_vars

NextSign == ChangeSign

SpecSign == Init /\ [][NextSign]_vars

NextReduce == FastReduce

SpecReduce == Init /\ [][NextReduce]_vars

NextCh6 == Ch6Frame

SpecCh6 == Init /\ [][NextCh6]_vars

NextRating ==
    \/ FindRating
    \/ WriteRating

SpecRating == Init /\ [][NextRating]_vars

\* the messages of the runs that follow the notifications
FewMessages ==
    {PlainMessage(MPRIS_IFACE_ROOT, NoArg, "Quit"), PlainMessage(NoArg, "/", "Quit"),
     PlainMessage(MPRIS_IFACE_PLAYER, NoArg, "Next"), PlainMessage(NoArg, "/Player", "Next")}

NextMpris ==
    \/ MprisStart({2})
    \/ ThreadLock
    \/ ReadWrite
    \/ EmitSignal
    \/ SkipSignal
    \/ ClearFlag
    \/ ThreadUnlock
    \/ PopMessage(Messages(2))
    \/ HookLock({"track"})
    \/ HookSet
    \/ HookUnlock

SpecMpris == Init /\ [][NextMpris]_vars

NextSignals ==
    \/ MprisStart({1, 2})
    \/ ThreadLock
    \/ ThreadSteps(FewMessages)
    \/ HookLock(AllHooks)
    \/ HookSet
    \/ HookUnlock

\* The thread, once it waits for the mutex, gets it: a hook holds the mutex
\* for one assignment.  Every other step of the thread and of a hook that
\* holds the mutex is taken.
SpecSignals ==
    /\ Init /\ [][NextSignals]_vars
    /\ SF_vars(ThreadLock)
    /\ WF_vars(ThreadSteps(FewMessages))
    /\ WF_vars(HookSet)
    /\ WF_vars(HookUnlock)

NextPulse ==
    \/ PulseStart
    \/ PulseCall
    \/ PulseLock
    \/ PulseRun
    \/ PulseSignal

SpecPulse == Init /\ [][NextPulse]_vars

NextSwap == SwapEndian

SpecSwap == Init /\ [][NextSwap]_vars

NextMono == MonoToStereo

SpecMono == Init /\ [][NextMono]_vars

(***************************************************************************)
(* Properties.                                                             *)
(***************************************************************************)
\* the stages the last audio_conv call completed, in order
StagesDone == [i \in 1..Len(cres.w.trace) |-> cres.w.trace[i].stage]
LastStage == StagesDone[Len(StagesDone)]
DidStage(name) == \E i \in 1..Len(StagesDone) : StagesDone[i] = name
\* a descriptor was built and its rates differ / are equal
BuiltOk == bres.called /\ bres.ret = "ok"
ConvRatesDiffer == conv.from.rate # conv.to.rate
\* the frames 1..n, in order
Ids(n) == [i \in 1..n |-> i]
\* the frames the carry buffer is said to hold
CarryFrames ==
    SubSeq(conv.resample_buf, 1, conv.resample_buf_nsamples \div conv.from.channels)

\* C1: audio_conv never writes to and never frees the caller's input buffer,
\* and what it returns is never the input buffer: a buffer it returns is one
\* of the allocations made during the call (the result is NULL only after a
\* resampler error).
InputUntouched ==
    cres.called =>
        /\ ~cres.w.in_written
        /\ cres.w.in_frees = 0
        /\ cres.ret # BUF
        /\ cres.st = "ok" =>
             \/ cres.ret \in 1..Len(cres.w.heap)
             \/ cres.w.rs_err /\ cres.ret = NULL

\* a call on a big-endian source that swapped its working copy in place and
\* returned a buffer
InputUntouchedWitness ==
    /\ cres.called /\ cres.st = "ok" /\ cres.n > 0
    /\ DidStage("swap_in")
    /\ cres.ret \in 1..Len(cres.w.heap)

\* C2: when audio_conv returns normally, the working format tag equals the
\* target format to.fmt, in encoding and in endianness.
FinalTagIsTarget ==
    cres.called /\ cres.st = "ok" => cres.w.sfmt = conv.to.fmt

\* a call that changed the encoding through float and swapped on the way in
\* and on the way out
FinalTagIsTargetWitness ==
    /\ cres.called /\ cres.st = "ok" /\ cres.n > 0
    /\ conv.from.fmt.enc # conv.to.fmt.enc
    /\ DidStage("swap_in") /\ DidStage("float_to_fixed") /\ DidStage("swap_out")
    /\ cres.w.sfmt = conv.to.fmt

\* C3: at equal rates, after every stage the tracked length is the sample
\* count times the bytes per sample of the current format (and is the size of
\* the working buffer), and the reported length of an N-byte input is
\* (N / Bps(from.fmt)) * Bps(to.fmt) * c, c = 2 for 1->2 channels, 1/3 for
\* 6->2 and 1 otherwise.
ChNum == IF conv.from.channels = 1 /\ conv.to.channels = 2 THEN 2 ELSE 1
ChDen == IF conv.from.channels = 6 /\ conv.to.channels = 2 THEN 3 ELSE 1
LengthTracked ==
    cres.called /\ conv.from.rate = conv.to.rate =>
        /\ \A i \in 1..Len(cres.w.trace) :
             LET e == cres.w.trace[i] IN
             /\ e.len = e.nsamp * sfmt_Bps(e.sfmt)
             /\ e.alloc = e.len
        /\ cres.st = "ok" =>
             cres.w.len * ChDen
               = (cres.w.size \div sfmt_Bps(conv.from.fmt)) * sfmt_Bps(conv.to.fmt) * ChNum

\* a 32-bit six-channel frame reduced to 24-bit on the fast path and then
\* mixed down to stereo
LengthTrackedWitness ==
    /\ cres.called /\ cres.st = "ok" /\ cres.n > 0
    /\ conv.from.rate = conv.to.rate
    /\ DidStage("fast_32_24") /\ DidStage("ch6_to_stereo")
    /\ cres.w.len = 8

CarryLengthWhole ==
    BuiltOk =>
        /\ conv.resample_buf_nsamples % conv.from.channels = 0
        /\ ~conv.rb => conv.resample_buf_nsamples = 0

\* a six-channel frame left in the carry buffer by a call
CarryLengthWholeWitness ==
    /\ BuiltOk /\ hist.calls > 0
    /\ conv.from.channels = 6
    /\ conv.resample_buf_nsamples = 6 /\ conv.rb

\* C6: a built descriptor has a resampler context exactly when its rates
\* differ, and audio_conv enters the resample stage exactly when they differ.
ResamplerIffRatesDiffer ==
    BuiltOk =>
        /\ conv.src_state # 0 <=> ConvRatesDiffer
        /\ bres.src_new = 1 <=> ConvRatesDiffer
        /\ cres.called =>
             /\ cres.w.rs_called <=> ConvRatesDiffer
             /\ DidStage("resample") <=> ConvRatesDiffer

\* a call that resampled with the context made by audio_conv_new
ResamplerIffRatesDifferWitness ==
    /\ BuiltOk /\ ConvRatesDiffer /\ conv.src_state = 1
    /\ cres.called /\ cres.n > 0 /\ cres.w.rs_called /\ cres.st = "ok"

ChannelPairAccepted ==
    (bres.from.channels = bres.to.channels)
        \/ (bres.from.channels \in {1, 6} /\ bres.to.channels = 2)
ChannelsDecideBuild ==
    bres.called /\ bres.from # bres.to =>
        IF ChannelPairAccepted
        THEN /\ bres.from.rate = bres.to.rate => bres.ret = "ok"
             /\ bres.ret = "error" => bres.from.rate # bres.to.rate
        ELSE /\ bres.ret = "error"
             /\ bres.src_new = 0
             /\ conv.src_state = 0
             /\ phase = "nobuild"

\* a 2 -> 6 request at different rates: refused before any resampler is made
ChannelsDecideBuildWitness ==
    /\ bres.called /\ bres.ret = "error" /\ bres.src_new = 0
    /\ bres.from.channels = 2 /\ bres.to.channels = 6
    /\ bres.from.rate # bres.to.rate

\* C10: with different rates and EnableResample = 0, audio_conv_new fails and
\* creates no resampler; with equal rates its outcome does not depend on
\* EnableResample.
ToggleEnable(o) == [o EXCEPT !.EnableResample = 1 - @]
EnableResampleGates ==
    bres.called =>
        /\ bres.from.rate # bres.to.rate /\ bres.opts.EnableResample = 0 =>
             /\ bres.ret = "error"
             /\ bres.src_new = 0
             /\ conv.src_state = 0
        /\ bres.from.rate = bres.to.rate =>
             \A ok \in BOOLEAN :
               LET other == audio_conv_new(bres.from, bres.to,
                                           ToggleEnable(bres.opts), ndebug, ok) IN
               /\ bres.ret = other.ret
               /\ conv.src_state = other.conv.src_state

\* resampling disabled and an unknown method: the request fails on the
\* option before the method is looked at
EnableResampleGatesWitness ==
    /\ bres.called /\ bres.ret = "error"
    /\ bres.from.rate # bres.to.rate
    /\ bres.opts.EnableResample = 0 /\ bres.opts.ResampleMethod = "Cubic"

\* C11: with different rates and resampling enabled, audio_conv_new accepts
\* ResampleMethod exactly when it is, ignoring case, one of SincBestQuality,
\* SincMediumQuality, SincFastest, ZeroOrderHold, Linear; any other value is
\* fatal and leaves no descriptor.
MethodNamesLower ==
    {"sincbestquality", "sincmediumquality", "sincfastest", "zeroorderhold", "linear"}
MethodSpelledRight == LowerCase(bres.opts.ResampleMethod) \in MethodNamesLower
IntermediatesFreedOnce ==
    cres.called =>
        /\ ~cres.w.uaf
        /\ \A p \in 1..Len(cres.w.heap) : cres.w.heap[p].frees <= 1
        /\ cres.st = "ok" =>
             \A p \in 1..Len(cres.w.heap) :
               cres.w.heap[p].frees = IF p = cres.ret THEN 0 ELSE 1

\* a call that went through float, the resampler, the quantizer and the
\* mono to stereo stage: five allocations, the last one returned
IntermediatesFreedOnceWitness ==
    /\ cres.called /\ cres.st = "ok" /\ cres.n > 0
    /\ DidStage("to_float") /\ DidStage("resample") /\ DidStage("float_to_fixed")
    /\ DidStage("mono_to_stereo")
    /\ Len(cres.w.heap) = 5 /\ cres.ret = 5

\* C13: the options are read by audio_conv_new only.  The outcome of the
\* audio_conv call on a descriptor (its status, result, buffers and trace, and
\* the descriptor it leaves) is one of the outcomes determined by the request
\* and the option values audio_conv_new saw, the input and what src_process
\* did, whatever the options are changed to after audio_conv_new returned.
CallOutcomes(c, h, n, nd) ==
    LET w3 == BeforeResample(c, n * c.from.channels * sfmt_Bps(c.from.fmt),
                             n * c.from.channels, nd) IN
    UNION { LET x == StResample([w |-> w3, conv |-> c, hist |-> h],
                                [i \in 1..n |-> h.given + i], r)
                w7 == AfterResample(x.conv, x.w) IN
            { [st |-> IF w7.st = "run" THEN (IF fault THEN "crash" ELSE "ok")
                      ELSE w7.st,
               ret |-> IF w7.st = "run" /\ ~fault THEN w7.sound ELSE NULL,
               w |-> w7, conv |-> x.conv]
              : fault \in (IF w7.oobr \/ w7.oobw THEN BOOLEAN ELSE {FALSE}) }
          : r \in RunsOf(c, w3) }
ZitaKeepsUnconsumed ==
    BuiltOk /\ cres.called /\ DidStage("zita_resample") =>
        hist.used \o CarryFrames = Ids(hist.given)

\* the bits of a sample of the encoding, and the five samples of the round trip
SampleBits(enc) ==
    CASE enc \in {"U8", "S8"} -> 8
      [] enc \in {"U16", "S16"} -> 16
      [] OTHER -> 24
RoundTripInputs == {1 - One, 0 - Pow2(22), 0, Pow2(22), One - 1}

\* C15: for each fixed format and each x of -1+eps, -0.5, 0, 0.5, 1-eps
\* (eps = 2^-23), fixed_to_float of float_to_fixed of x is within
\* 2 / 2^bits of x, that is within 2^(24 - bits) steps of 2^-23
RoundTripClose ==
    samp.op = "fixed_to_float" /\ samp.in \in RoundTripInputs =>
        Abs(samp.out - samp.in) <= Pow2(24 - SampleBits(samp.enc))

\* the last call was made on the descriptor of the example and returned
ConvertedAs(ex) ==
    /\ samp.op = "audio_conv"
    /\ conv.from = ex.from /\ conv.to = ex.to

\* C16 (as the code has it): for from = (S32-LE, 48000, 2) and to = (S16-LE,
\* 48000, 2), converting the bytes 00 00 00 7F 00 00 00 80 takes the 32->16
\* fast path and returns the high halves of the two words, 00 7F 00 80
FastPathExample ==
    ConvertedAs(FastExample) /\ samp.in = <<0, 0, 0, 127, 0, 0, 0, 128>> =>
        /\ cres.st = "ok"
        /\ StagesDone = <<"copy", "fast_32_16">>
        /\ samp.out = <<0, 127, 0, 128>>

FastPathExampleWitness ==
    /\ ConvertedAs(FastExample) /\ samp.in = <<0, 0, 0, 127, 0, 0, 0, 128>>
    /\ DidStage("fast_32_16") /\ samp.out = <<0, 127, 0, 128>>

\* C16 as stated: the same call returns the four bytes FF 7F 00 80
FastPathExampleStated ==
    ConvertedAs(FastExample) /\ samp.in = <<0, 0, 0, 127, 0, 0, 0, 128>> =>
        /\ cres.st = "ok"
        /\ StagesDone = <<"copy", "fast_32_16">>
        /\ samp.out = <<255, 127, 0, 128>>

\* C17: for from = (FLOAT, 44100, 6) and to = (S16-LE, 44100, 2), converting
\* the frame {0.5, 0.5, 0, 0, 0, 0} returns the stereo frame CD 10 CD 10
\* (left = right = 4301)
DownmixExample ==
    ConvertedAs(MixExample) /\ samp.in = <<Pow2(22), Pow2(22), 0, 0, 0, 0>> =>
        /\ cres.st = "ok"
        /\ samp.out = <<205, 16, 205, 16>>

\* C18: audio_conv_new never leaves a descriptor whose from and to are equal
\* in format, rate and channels: such a request is turned down
NoIdentityDescriptor ==
    /\ phase = "built" => ParamsDiffer(conv.from, conv.to)
    /\ bres.called /\ ~ParamsDiffer(bres.from, bres.to) => bres.ret # "ok"

\* the carry buffers of the descriptor that are allocated and not yet freed
CarryLive == hist.rb_alloc - hist.rb_free

\* C19: after audio_conv_new, any audio_conv calls and audio_conv_destroy,
\* the resampler context and every carry buffer have been released exactly
\* once and none is left; until then at most the one buffer the descriptor
\* points to is live; with equal rates nothing is created and nothing released
ReleasedOnce ==
    /\ phase \in {"built", "failed"} =>
          /\ CarryLive = (IF conv.rb THEN 1 ELSE 0)
          /\ hist.src_delete = 0
    /\ phase = "destroyed" =>
          /\ CarryLive = 0
          /\ hist.src_delete = hist.src_new
          /\ hist.src_new = (IF ConvRatesDiffer THEN 1 ELSE 0)
          /\ ~ConvRatesDiffer => hist.rb_alloc = 0 /\ hist.rb_free = 0

ReleasedOnceWitness ==
    /\ phase = "destroyed" /\ ConvRatesDiffer
    /\ hist.calls = MaxCallsRs /\ conv.rb
    /\ hist.rb_alloc > 1 /\ hist.rb_free = hist.rb_alloc /\ hist.src_delete = 1

\* C20: for each of the widths 8, 16, 24 in a 32-bit word and 32, and any
\* buffer, change_sign applied twice leaves the bytes of the buffer and the
\* format tag as they were
SignFlipInvolution ==
    samp.op = "change_sign" /\ samp.times = 2 =>
        samp.buf = samp.in /\ samp.fmt = samp.infmt

SignFlipInvolutionWitness ==
    /\ samp.op = "change_sign" /\ samp.times = 2
    /\ samp.infmt.enc = "S24" /\ Len(samp.in) = MaxSignBytes
    /\ samp.once # samp.in
    /\ samp.buf = samp.in /\ samp.fmt = samp.infmt

\* byte i of a buffer whose groups of w bytes are each reversed
Mirrored(buf, w) ==
    [i \in 1..Len(buf) |-> buf[((i - 1) \div w) * w + (w - 1 - ((i - 1) % w)) + 1]]

\* the bytes a group is made of when swap_endian reorders the format: 1 for
\* 8-bit and float samples (left alone), else the bytes of a sample
SwapGroup(fmt) == IF fmt.enc \in {"S8", "U8", "FLOAT"} THEN 1 ELSE sfmt_Bps(fmt)

\* C21: on a buffer of whole samples one swap_endian leaves 8-bit and float
\* buffers as they are, exchanges the two bytes of 16-bit samples, reverses
\* the four bytes of 24-padded and 32-bit samples and exchanges bytes 0 and 2
\* of 24-packed samples; a second one gives the original bytes back
SwapEndianInvolution ==
    samp.op = "swap_endian" /\ Len(samp.in) % sfmt_Bps(samp.fmt) = 0 =>
        /\ samp.once = Mirrored(samp.in, SwapGroup(samp.fmt))
        /\ samp.times = 2 => samp.buf = samp.in

SwapEndianInvolutionWitness ==
    /\ samp.op = "swap_endian" /\ samp.times = 2
    /\ samp.fmt.enc = "S24_3" /\ samp.in = <<1, 2, 3, 3, 1, 2>>
    /\ samp.once = <<3, 2, 1, 2, 1, 3>> /\ samp.buf = samp.in

\* sample k (from 0) of a buffer of samples of w bytes
SampleAt(buf, k, w) == SubSeq(buf, k * w + 1, k * w + w)

\* C22: for a mono buffer of whole samples mono_to_stereo returns a buffer of
\* twice the length whose frame k has the left and the right sample both
\* equal to input sample k
MonoDoubles ==
    samp.op = "mono_to_stereo" /\ Len(samp.in) % sfmt_Bps(samp.fmt) = 0 =>
        LET w == sfmt_Bps(samp.fmt) IN
        /\ ~samp.past
        /\ samp.alloc = 2 * Len(samp.in) /\ Len(samp.out) = 2 * Len(samp.in)
        /\ \A k \in 0..(Len(samp.in) \div w - 1) :
              /\ SampleAt(samp.out, 2 * k, w) = SampleAt(samp.in, k, w)
              /\ SampleAt(samp.out, 2 * k + 1, w) = SampleAt(samp.in, k, w)

MonoDoublesWitness ==
    /\ samp.op = "mono_to_stereo" /\ samp.fmt.enc = "S24_3"
    /\ samp.in = <<1, 2, 3, 3, 1, 2>>
    /\ samp.out = <<1, 2, 3, 1, 2, 3, 3, 1, 2, 3, 1, 2>>

\* the stages of the last call that are fast-path reducers, by their place
FastStages ==
    {i \in 2..Len(cres.w.trace) :
        cres.w.trace[i].stage \in {"fast_32_24_3", "fast_32_16", "fast_32_24", "fast_24_16"}}
SignedEncodings == {"S8", "S16", "S24", "S24_3", "S32"}
\* the widths a reducer goes between: 24 bits in three bytes counts as 3
ReducerPairs == {<<"S32", 3>>, <<"U32", 3>>, <<"S32", 2>>, <<"U32", 2>>,
                 <<"S32", 4>>, <<"U32", 4>>, <<"S24", 2>>, <<"U24", 2>>}

\* C23: a fast-path reducer runs in audio_conv only when the rates are equal,
\* the current and the target width are one of 32->24, 32->24-packed, 32->16,
\* 24->16, and the current and the target format are both signed or both
\* unsigned
ReducerGuarded ==
    cres.called =>
        \A i \in FastStages :
            LET cur == cres.w.trace[i - 1].sfmt IN
            /\ conv.from.rate = conv.to.rate
            /\ <<cur.enc, sfmt_Bps(conv.to.fmt)>> \in ReducerPairs
            /\ conv.to.fmt.enc # "S32" /\ conv.to.fmt.enc # "U32"
            /\ (cur.enc \in SignedEncodings) = (conv.to.fmt.enc \in SignedEncodings)

\* the places of the sign flips of stage 5 in the last call
SignFlipStages ==
    {i \in 2..Len(cres.w.trace) : cres.w.trace[i].stage = "change_sign"}

\* C24: when stage 5 of audio_conv flips the sign, the byte count it passes
\* to change_sign is the tracked length of the working buffer, and it is no
\* more than the bytes the working buffer holds
SignFlipWithinBuffer ==
    cres.called =>
        \A i \in SignFlipStages :
            /\ ChangeSignSize(cres.w) = cres.w.trace[i - 1].len
            /\ ChangeSignSize(cres.w) <= cres.w.trace[i - 1].alloc

\* the largest and the smallest code of a format, as the bytes of one sample
MaxCode(enc) ==
    CASE enc = "U8" -> LE(Pow2(8) - 1, 1)
      [] enc = "S8" -> LE(Pow2(7) - 1, 1)
      [] enc = "U16" -> LE(Pow2(16) - 1, 2)
      [] enc = "S16" -> LE(Pow2(15) - 1, 2)
      [] enc = "U24" -> LE(U24_MAX, 4)
      [] enc = "S24" -> LE(S24_MAX, 4)
      [] enc = "U24_3" -> LE(U24_MAX, 3)
      [] enc = "S24_3" -> LE(S24_MAX, 3)
      [] enc = "U32" -> <<255, 255, 255, 255>>
      [] enc = "S32" -> LE(INT32_MAX, 4)
MinCode(enc) ==
    CASE enc = "S8" -> LE(0 - Pow2(7), 1)
      [] enc = "S16" -> LE(0 - Pow2(15), 2)
      [] enc = "S24" -> LE(S24_MIN, 4)
      [] enc = "S24_3" -> LE(S24_MIN, 3)
      [] enc = "S32" -> LE(INT32_MIN, 4)
      [] OTHER -> [i \in 1..Len(MaxCode(enc)) |-> 0]
\* the scaled sample "f" of a quantizer is at or past the full scale it is
\* compared with: 2^31 and -2^31, or S24_MAX and S24_MIN for the 24-bit ones
ScaledAbove(q, enc) ==
    IF enc \in {"U24", "S24", "U24_3", "S24_3"}
    THEN q > 0 /\ TimesS24Max(q).int >= S24_MAX
    ELSE AboveInt32(q)
ScaledBelow(q, enc) ==
    IF enc \in {"U24", "S24", "U24_3", "S24_3"}
    THEN q < 0 /\ TimesS24Max(q).int >= One
    ELSE BelowInt32(q)
\* the order of two codes of a format: by the top byte (a signed one counted
\* from -128), then by the bytes below it
CodeTop(b, enc) ==
    IF enc \in SignedEncodings THEN (b[Len(b)] + 128) % 256 ELSE b[Len(b)]
CodeLeq(a, b, enc) ==
    \/ CodeTop(a, enc) < CodeTop(b, enc)
    \/ /\ CodeTop(a, enc) = CodeTop(b, enc)
       /\ Unsigned(SubSeq(a, 1, Len(a) - 1)) <= Unsigned(SubSeq(b, 1, Len(b) - 1))

\* C25: for every fixed target format float_to_fixed gives the largest code
\* of the format to a sample scaled to or past the positive full scale, the
\* smallest code to one scaled to or past the negative full scale, and to a
\* smaller sample never a larger code
QuantizerClamps ==
    samp.op = "float_to_fixed" =>
        /\ ScaledAbove(samp.in, samp.enc) => samp.fixed = MaxCode(samp.enc)
        /\ ScaledBelow(samp.in, samp.enc) => samp.fixed = MinCode(samp.enc)
        /\ \A p \in SampleInputs :
              p <= samp.in =>
                  CodeLeq(FloatToFixedSample(p, samp.enc), samp.fixed, samp.enc)

\* the 24-bit integer a packed quantizer splits into the three bytes of a
\* sample, and the integer the normalizer puts together from three bytes
\* (u24_3_to_float adds S24_MIN to it afterwards)
PackedValue(q, enc) == IF enc = "S24_3" THEN S24Value(q) ELSE U24Value(q)
PackedAssembled(out, enc) == IF enc = "S24_3" THEN out ELSE out - S24_MIN

\* C26: the three bytes float_to_s24_3 / float_to_u24_3 split a 24-bit
\* integer v into are put together to v again by s24_3_to_float /
\* u24_3_to_float
PackedRoundTrip ==
    samp.op = "fixed_to_float" /\ samp.enc \in {"S24_3", "U24_3"} =>
        PackedAssembled(samp.out, samp.enc) = PackedValue(samp.in, samp.enc)

\* the width of an encoding, 24 bits in three bytes apart from 24 bits in a
\* word
WidthOf(enc) ==
    CASE enc \in {"S8", "U8"} -> "8"
      [] enc \in {"S16", "U16"} -> "16"
      [] enc \in {"S24", "U24"} -> "24"
      [] enc \in {"S24_3", "U24_3"} -> "24_3"
      [] enc \in {"S32", "U32"} -> "32"
      [] OTHER -> enc
\* out is in >> k: arithmetically for a signed word, so that in - out * 2^k
\* is in 0 .. 2^k - 1, and logically for an unsigned one, so that the bytes
\* of out are the bytes of in from place k / 8 up, filled up with zeros
ShiftedRight(in, out, k, signed) ==
    IF signed
    THEN Signed(in) - Signed(out) * Pow2(k) \in 0..(Pow2(k) - 1)
    ELSE \A i \in 1..Len(out) :
            out[i] = IF i + k \div 8 <= Len(in) THEN in[i + k \div 8] ELSE 0

\* C27: a fast-path reducer gives v >> 16 for 32 -> 16, v >> 8 for 32 -> 24
\* in a word and for 24 -> 16 (arithmetic if signed, logical if unsigned),
\* and the bytes (v >> 8) & 0xFF, (v >> 16) & 0xFF, (v >> 24) & 0xFF for
\* 32 -> 24 in three bytes; the tag of the result has the width of the
\* target and the signedness of the source
ReducerMaps ==
    samp.op = "reduce" =>
        /\ WidthOf(samp.enc) = WidthOf(samp.to)
        /\ (samp.enc \in SignedEncodings) = (samp.cur \in SignedEncodings)
        /\ CASE WidthOf(samp.to) = "24_3" -> samp.out = SubSeq(samp.in, 2, 4)
             [] WidthOf(samp.cur) = "32" /\ WidthOf(samp.to) = "16" ->
                  /\ Len(samp.out) = 2
                  /\ ShiftedRight(samp.in, samp.out, 16, samp.cur \in SignedEncodings)
             [] WidthOf(samp.cur) = "32" /\ WidthOf(samp.to) = "24" ->
                  /\ Len(samp.out) = 4
                  /\ ShiftedRight(samp.in, samp.out, 8, samp.cur \in SignedEncodings)
             [] WidthOf(samp.cur) = "24" /\ WidthOf(samp.to) = "16" ->
                  /\ Len(samp.out) = 2
                  /\ ShiftedRight(samp.in, samp.out, 8, samp.cur \in SignedEncodings)

\* a negative 32-bit word was reduced to three bytes, and an unsigned word
\* with its top bit set was reduced to 16 bits
ReducerMapsWitness ==
    /\ samp.op = "reduce"
    /\ \/ samp.cur = "S32" /\ samp.to = "S24_3" /\ samp.in = <<1, 127, 128, 255>>
       \/ samp.cur = "U32" /\ samp.to = "S16" /\ samp.in[4] = 255

\* the places of the resample stage in the last call
ResampleStages ==
    {i \in 2..Len(cres.w.trace) : cres.w.trace[i].stage = "resample"}

\* C28: when the resample stage of audio_conv runs, the working buffer is
\* tagged float and native-endian, no target conversion or channel stage has
\* run yet, no swap-in, fast path or conversion to float follows, and the
\* frames fed to the resampler are the frames of the input counted with the
\* channels of the source
ResampleOnFloat ==
    cres.called =>
        \A i \in ResampleStages :
            /\ cres.w.trace[i - 1].sfmt.enc = "FLOAT"
            /\ cres.w.trace[i - 1].sfmt.end = SFMT_NE
            /\ \A j \in 1..(i - 1) :
                  cres.w.trace[j].stage \in
                      {"copy", "swap_in", "fast_32_24_3", "fast_32_16", "fast_32_24",
                       "fast_24_16", "to_float"}
            /\ \A j \in (i + 1)..Len(cres.w.trace) :
                  cres.w.trace[j].stage \in
                      {"change_sign", "float_to_fixed", "mono_to_stereo",
                       "ch6_to_stereo", "swap_out"}
            /\ hist.fed = Ids(cres.n)

\* two frames of a mono, byte-swapped 16-bit sound were resampled and then
\* turned into 8-bit stereo
ResampleOnFloatWitness ==
    /\ cres.called /\ cres.n = 2
    /\ conv.from.fmt = [enc |-> "S16", end |-> "BE"] /\ conv.from.channels = 1
    /\ conv.to.fmt.enc = "U8" /\ conv.to.channels = 2
    /\ StagesDone = <<"copy", "swap_in", "to_float", "resample", "float_to_fixed",
                      "mono_to_stereo">>

\* C29: in the 5.1 to stereo down-mix of a frame of S16 or S32 samples, the
\* accumulator of either output stays in the range of the sample type after
\* every addition, whatever the six samples are
DownmixInRange ==
    samp.op = "ch6_frame" => \A j \in 1..2 : ~samp.out[j].over

\* the frame that loads the left output most: every channel at the end of
\* the range that its coefficient makes positive
DownmixInRangeWitness ==
    /\ samp.op = "ch6_frame"
    /\ samp.in = <<Ch6Max(samp.enc), 0, Ch6Max(samp.enc), Ch6Max(samp.enc),
                   Ch6Min(samp.enc), Ch6Min(samp.enc)>>
    /\ samp.out[1].lo > Ch6Max(samp.enc) - (Ch6Max(samp.enc) \div 1000)

\* at offset p of the file f a line starts that is the digit of r, a space
\* and the name fn
RatingLineAt(f, p, fn, r) ==
    /\ p >= 0
    /\ p + 2 + Len(fn) <= Len(f)
    /\ p = 0 \/ f[p] = "\n"
    /\ f[p + 1] \in RatingChars /\ RatingOf(f[p + 1]) = r
    /\ f[p + 2] = " "
    /\ SubSeq(f, p + 3, p + 2 + Len(fn)) = fn
    /\ p + 2 + Len(fn) = Len(f) \/ f[p + 3 + Len(fn)] = "\n"

\* C30: when find_rating returns a rating and was given a filepos pointer,
\* *filepos is the offset in the file of the rating digit of the line with
\* that rating and the name looked up
FileposAtRating ==
    samp.op = "find_rating" /\ samp.ret >= 0 /\ samp.want =>
        RatingLineAt(samp.file, samp.filepos, samp.fn, samp.ret)

\* the places of the full conversion of stage 5 in the last call
QuantizerStages ==
    {i \in 2..Len(cres.w.trace) : cres.w.trace[i].stage = "float_to_fixed"}

\* the call stopped at the assertion of line 1252: stage 5 was entered with a
\* buffer that is neither float nor as wide as the target
QuantizerAssertFailed ==
    /\ cres.w.st = "assert"
    /\ cres.w.sfmt.enc # "FLOAT"
    /\ TargetCond(conv, cres.w)
    /\ ~sfmt_same_bps(cres.w.sfmt, conv.to.fmt)

\* C33: whenever stage 5 of audio_conv takes the branch of float_to_fixed,
\* the working buffer is tagged float: float_to_fixed is never run on another
\* buffer and the assertion before it never fails
QuantizerOnFloat ==
    cres.called =>
        /\ \A i \in QuantizerStages : cres.w.trace[i - 1].sfmt.enc = "FLOAT"
        /\ ~QuantizerAssertFailed

\* a 32-bit sound was resampled and then quantized to 8 bits
QuantizerOnFloatWitness ==
    /\ cres.called /\ cres.n > 0
    /\ conv.from.fmt.enc = "S32" /\ conv.to.fmt.enc = "U8"
    /\ DidStage("resample") /\ DidStage("float_to_fixed")

\* the places of the 5.1 to stereo down-mix in the last call
Ch6Stages ==
    {i \in 2..Len(cres.w.trace) : cres.w.trace[i].stage = "ch6_to_stereo"}
\* the bytes ch6_to_stereo reads of a buffer of size bytes when it is told
\* the format is format: whole frames of six samples
Ch6BytesRead(size, format) ==
    RoundUp(size, 6 * sfmt_Bps(format))

\* C34: the 6 -> 2 stage of audio_conv hands ch6_to_stereo the encoding the
\* working buffer has at that point, and ch6_to_stereo reads no byte beyond
\* the working buffer
DownmixDecodesCurrent ==
    cres.called =>
        \A i \in Ch6Stages :
            /\ Ch6Format(conv, cres.w).enc = cres.w.trace[i - 1].sfmt.enc
            /\ Ch6BytesRead(cres.w.trace[i - 1].len, Ch6Format(conv, cres.w))
                   <= cres.w.trace[i - 1].alloc

\* the code change_sign makes of the code float_to_fixed gave the sample
FlippedCode ==
    ChangeSignBytes(samp.fixed, Len(samp.fixed), [enc |-> samp.enc, end |-> SFMT_NE]).buf

\* C35: for each width change_sign handles, flipping the code a quantizer
\* gives a sample yields the code the quantizer of the other signedness gives
\* the same sample, from signed to unsigned and back (left out: 32-bit
\* samples at or above full scale, where float_to_u32 does not clamp to the
\* largest code)
SignFlipMatchesCodes ==
    /\ samp.op = "float_to_fixed"
    /\ samp.enc \in SignEncodings
    /\ ~(samp.enc \in {"S32", "U32"} /\ AboveInt32(samp.in))
    => FlippedCode = FloatToFixedSample(samp.in, FlippedEnc(samp.enc))

(***************************************************************************)
(* The channel count of the two resampler contexts.                        *)
(***************************************************************************)
\* src_new (resample_type, from->channels, &err), line 795
src_new_channels(from, to) == from.channels

\* zita_init, lines 41-48: zita->setup (from.rate, to.rate, to.channels, quality)
zita_init(c) ==
    [inp_rate |-> c.from.rate, out_rate |-> c.to.rate, channels |-> c.to.channels]

\* the channel count of the buffers resample_sound and zita_resample_sound
\* are handed at lines 1231-1242: conv->from.channels
ResampledChannels(c) == c.from.channels

\* the libsamplerate half on its own
SrcContextChannels ==
    BuiltOk /\ ConvRatesDiffer =>
        src_new_channels(conv.from, conv.to) = ResampledChannels(conv)

\* C36: a resampler context, of libsamplerate or of zita, is set up for the
\* channel count of the buffers it is given, which is from.channels, also
\* when the conversion changes the channel count.
ResamplerContextChannels ==
    BuiltOk /\ ConvRatesDiffer =>
        /\ src_new_channels(conv.from, conv.to) = ResampledChannels(conv)
        /\ zita_init(conv).channels = ResampledChannels(conv)

\* the names other than the one written
OtherNames == RatingNames \ {samp.fn}

\* the written name reads back as the rating written
WrittenRatingReadsBack ==
    samp.op = "ratings_write_file" /\ samp.ret = 1 =>
        ratings_read_file(samp.fn, samp.after) = samp.rating

\* C37: after a successful ratings_write_file(fn, r) the lookup of fn gives
\* r, every other name is rated as before, and the file is as long as before
\* when it already had an entry for fn.
WriteThenRead ==
    samp.op = "ratings_write_file" /\ samp.ret = 1 =>
        /\ ratings_read_file(samp.fn, samp.after) = samp.rating
        /\ \A g \in OtherNames :
             ratings_read_file(g, samp.after) = ratings_read_file(g, samp.before)
        /\ samp.before.exists /\ find_rating(samp.fn, samp.before.data, TRUE).ret >= 0
             => Len(samp.after.data) = Len(samp.before.data)

\* a message was popped and answered
Answered == samp.op = "mpris" /\ samp.msg # NoMessage

\* a request the handlers found nothing wrong with gets the method return alone
AnsweredPlainly ==
    Answered /\ HandlerSends(samp.version, samp.msg) = SendNothing =>
        Len(samp.sent) = 1 /\ samp.sent[1].type = "method_return"

\* C31: for every message the MPRIS thread pops, exactly one response, a
\* method return or an error, is sent on the connection.
OneResponse == Answered => Len(samp.sent) = 1

\* the hooks whose flag the thread of the revision tests: all four of MPRIS
\* 1.0; track, status and position of MPRIS 2
NotifiedHooks(version) ==
    IF version = 2 THEN {"track", "status", "seeked"}
    ELSE {"tracklist", "track", "status", "caps"}

\* a pending notification has its flag set
PendingKept(h) == samp.op = "mpris" /\ samp.pending[h] => samp.flag[h]

\* a flag is cleared by the thread alone, under mpris_mutex, after the signal
ClearedAfterEmission(h) ==
    samp.op = "mpris" /\ samp.flag[h] /\ ~samp'.flag[h] =>
        samp.mutex = "mpris" /\ ~samp.pending[h]

\* the thread has left its loop
ThreadStopped == samp.op = "mpris" /\ samp.pc = "done"

Raised(h) == samp.op = "mpris" /\ samp.pending[h]
Emitted(h) == samp.op = "mpris" /\ ~samp.pending[h]

\* the statement for every hook of the revision
NotificationsNotLostAll ==
    /\ [](\A h \in AllHooks : PendingKept(h))
    /\ [][\A h \in AllHooks : ClearedAfterEmission(h)]_vars
    /\ \A h \in AllHooks : Raised(h) ~> (Emitted(h) \/ ThreadStopped)

\* C38: a notification raised by a hook whose flag the thread tests keeps
\* its flag set until the thread has emitted the signal, the flag is cleared
\* only under mpris_mutex after the emission, and unless the thread leaves
\* its loop the signal is emitted.
NotificationsNotLost ==
    /\ [](\A h \in AllHooks : PendingKept(h))
    /\ [][\A h \in AllHooks : ClearedAfterEmission(h)]_vars
    /\ \A h \in AllHooks :
         (Raised(h) /\ h \in NotifiedHooks(samp.version)) ~> (Emitted(h) \/ ThreadStopped)

\* the thread has emitted a signal and is about to clear its flag, while
\* another notification is pending
NotificationsNotLostWitness ==
    /\ samp.op = "mpris" /\ samp.pc = "clear"
    /\ ~samp.pending[SignalOrder(samp.version)[samp.i]]
    /\ \E h \in NotifiedHooks(samp.version) : samp.pending[h]

\* no function but pulse_close hands a NULL stream to the library
NullStreamOnlyInClose ==
    samp.op = "pulse" /\ samp.st = "crash" => samp.fault = "close"

\* a thread that runs a function of the backend past its lock holds the lock
StreamUsedUnderLock ==
    samp.op = "pulse" =>
        \A t \in PulseThreads : samp.pc[t].at = "held" => samp.lock = t

\* C32: whatever the interleaving of open and close with the other calls of
\* the backend, a call made while no stream is open included, no function
\* hands a NULL stream to the library.
NullStreamNeverUsed == samp.op = "pulse" => samp.st # "crash"

====
